---------------------------- MODULE Spec2Model ----------------------------
(* A state-machine model of the adguard_rule plugin                        *)
(* (src/dispatcher/dispatcher.go, package adguard_rule): the RuleList map, *)
(* the published matcher pair, config.json and the rule files, the two     *)
(* locks, the debounced reload, the downloader, the auto-updater and the  *)
(* control API.  Every goroutine is a task with a program counter.         *)
EXTENDS Integers, Sequences, FiniteSets, TLC

-----------------------------------------------------------------------------
(* Bounds of the model.                                                    *)

MaxTasks == 4        \* goroutine slots besides the auto-updater (slot 0)
MaxHour == 2         \* last instant of the wall clock (hours)
SnapMatches == 2     \* Match calls in SpecSnap
SnapPuts == 1        \* PUT requests in SpecSnap
DebouncePuts == 3    \* PUT requests in SpecDebounce
LivePuts == 1        \* PUT requests in SpecLive
ClosePuts == 2       \* PUT requests in SpecClose
DownloadRequests == 1   \* requests or updater ticks in SpecDownload
ApiRequests == 1     \* requests of each kind in a scenario of SpecApi
ApiDeletes == 2      \* DELETE requests in the DELETE scenario of SpecApi
RejectRequests == 1   \* requests of each kind in a scenario of SpecReject
ParseMatches == 2     \* Match calls in SpecParse
TickCount == 2        \* ticks of the auto-updater in SpecTick
RaceRequests == 1     \* POST and PUT requests in SpecRace
DeleteRequests == 1   \* DELETE and POST /update requests in SpecDelete
BootRequests == 1     \* PUT requests and Match calls after the start in SpecBoot
LiveUpdates == 1     \* POST /update requests in SpecLive

(* Program constants.                                                      *)
reloadDebounceDur == 2     \* 500 ms, in clock instants of 250 ms

Tasks == 1..MaxTasks
Updater == 0
AllTasks == 0..MaxTasks

-----------------------------------------------------------------------------
(* Data: rule lists, rule lines, domains.                                  *)

InitIds == {1, 2}          \* lists configured at start
UuidPool == {3}            \* ids uuid.New can still return

Names == {"a", "b"}
NameRank(s) == CASE s = "" -> 0 [] s = " " -> 0 [] s = "a" -> 1 [] OTHER -> 2

aCom == <<"a", "com">>
safeACom == <<"safe", "a", "com">>
bCom == <<"b", "com">>
cCom == <<"c", "com">>
Domains == {aCom, safeACom, bCom, cCom}

(* A rule line of a list file, already classified by the regular           *)
(* expressions of parseRules: t is the form, dom the captured domain.      *)
Line(t, dom) == [t |-> t, dom |-> dom]

(* What the remote servers serve.                                          *)
Remote(url) ==
    CASE url = "u1" -> {Line("block", aCom), Line("allow", safeACom), Line("comment", <<>>)}
      [] url = "u2" -> {Line("block", bCom), Line("bare", cCom)}
      [] OTHER -> {}

NoFile == [exists |-> FALSE, lines |-> {}]
FileOf(lines) == [exists |-> TRUE, lines |-> lines]


-----------------------------------------------------------------------------
(* Rule parsing (parseRules, cleanDomain, convertToMosdnsRule).            *)

HasStar(dom) == \E i \in 1..Len(dom) : dom[i] = "*"

(* strings.TrimPrefix(domain, "*.") then TrimPrefix(domain, "."): a        *)
(* leading "*" label, then a leading empty label, is dropped.              *)
cleanDomain(dom) ==
    LET d1 == IF Len(dom) >= 2 /\ dom[1] = "*" THEN Tail(dom) ELSE dom
    IN  IF Len(d1) >= 2 /\ d1[1] = "" THEN Tail(d1) ELSE d1

convertToMosdnsRule(dom) ==
    IF HasStar(dom) THEN [kind |-> "regexp", pat |-> dom]
                    ELSE [kind |-> "domain", pat |-> dom]

(* The rule one line adds, as a set (empty when the line is skipped).      *)
AllowOf(l) ==
    IF l.t = "allow" THEN {convertToMosdnsRule(cleanDomain(l.dom))} ELSE {}

DenyOf(l) ==
    CASE l.t = "block" -> {convertToMosdnsRule(cleanDomain(l.dom))}
      [] l.t = "bare" ->
           IF Len(l.dom) >= 2 /\ l.dom[1] # "*" /\ l.dom[Len(l.dom)] # "*"
           THEN {[kind |-> "full", pat |-> l.dom]} ELSE {}
      [] OTHER -> {}

(* parseRules over the lines of one file: the rules added to the allow    *)
(* and the deny builder, and the number of lines that added a rule.        *)
parseRules(lines) ==
    [allow |-> UNION {AllowOf(l) : l \in lines},
     deny |-> UNION {DenyOf(l) : l \in lines},
     count |-> Cardinality({l \in lines : AllowOf(l) # {} \/ DenyOf(l) # {}})]

-----------------------------------------------------------------------------
(* domain.MixMatcher: full, suffix and regexp rules.                       *)

IsSuffix(p, d) ==
    /\ Len(p) <= Len(d)
    /\ \A i \in 1..Len(p) : d[Len(d) - Len(p) + i] = p[i]

RECURSIVE GlobAt(_, _)
(* pattern p matches a prefix of d; a "*" label stands for ".*"            *)
GlobAt(p, d) ==
    IF p = <<>> THEN TRUE
    ELSE IF p[1] = "*"
         THEN \E k \in 0..Len(d) : GlobAt(Tail(p), SubSeq(d, k + 1, Len(d)))
         ELSE d # <<>> /\ d[1] = p[1] /\ GlobAt(Tail(p), Tail(d))

RuleMatch(r, d) ==
    CASE r.kind = "full" -> r.pat = d
      [] r.kind = "domain" -> IsSuffix(r.pat, d)
      [] OTHER -> \E k \in 0..Len(d) : GlobAt(r.pat, SubSeq(d, k + 1, Len(d)))

MatcherMatch(rules, d) == \E r \in rules : RuleMatch(r, d)

(* A matcher as published: its rules, the reload that built it (gen) and   *)
(* the value of reload_id when that reload took its manifest snapshot.     *)
Matcher(gen, asof, rules) == [gen |-> gen, asof |-> asof, rules |-> rules]

-----------------------------------------------------------------------------
(* The manifest: OnlineRule, MarshalJSON, saveConfig's sort, loadConfig.   *)

OnlineRule(name, url, enabled, auto, interval, count, last) ==
    [name |-> name, url |-> url, enabled |-> enabled, auto_update |-> auto,
     update_interval_hours |-> interval, rule_count |-> count,
     last_updated |-> last]

(* One JSON object: last_updated is omitted (the empty set) when zero.     *)
MarshalJSON(id, r) ==
    [id |-> id, name |-> r.name, url |-> r.url, enabled |-> r.enabled,
     auto_update |-> r.auto_update,
     update_interval_hours |-> r.update_interval_hours,
     rule_count |-> r.rule_count,
     last_updated |-> IF r.last_updated = 0 THEN {} ELSE {r.last_updated}]

RECURSIVE SortedById(_)
SortedById(S) ==
    IF S = {} THEN <<>>
    ELSE LET m == CHOOSE x \in S : \A y \in S : x <= y
         IN  <<m>> \o SortedById(S \ {m})

(* json.MarshalIndent of the rules sorted by id.                           *)
Serialize(rules) ==
    LET ids == SortedById(DOMAIN rules)
    IN  [i \in 1..Len(ids) |-> MarshalJSON(ids[i], rules[ids[i]])]

(* json.Unmarshal followed by the loop of loadConfig.                      *)
loadConfig(data) ==
    [id \in {data[i].id : i \in 1..Len(data)} |->
        LET e == CHOOSE x \in {data[i] : i \in 1..Len(data)} : x.id = id
        IN  OnlineRule(e.name, e.url, e.enabled, e.auto_update,
                       e.update_interval_hours, e.rule_count,
                       IF e.last_updated = {} THEN 0
                       ELSE CHOOSE v \in e.last_updated : TRUE)]

(* A file holding a manifest: data is what its inode holds, complete is    *)
(* FALSE between the truncating open and the write, writers are the tasks  *)
(* holding the inode open for writing.                                     *)
NoCfg == [exists |-> FALSE, data |-> <<>>, complete |-> FALSE, writers |-> {}]


-----------------------------------------------------------------------------
(* State.                                                                  *)

VARIABLES
    onlineRules,   \* p.onlineRules: id -> OnlineRule
    allowMatcher,  \* p.allowMatcher
    denyMatcher,   \* p.denyMatcher
    mu,            \* p.mu: [w |-> writer or -1, r |-> set of readers]
    reloadMu,      \* p.reloadMu: holder or -1
    reloadID,      \* p.reloadID
    closed,        \* p.ctx is cancelled
    hour,          \* wall clock, in hours
    task,          \* goroutines: slot -> frame
    ruleFile,      \* <dir>/<id>.rules: id -> file
    cfg,           \* <dir>/config.json
    cfgTmp,        \* <dir>/config.json.tmp
    usedIds,       \* ids uuid.New has returned
    budget,        \* requests the environment may still issue, per kind
    hist,          \* history of the run, read only by the properties
    lastGet        \* the latest GET /rules response

vars == <<onlineRules, allowMatcher, denyMatcher, mu, reloadMu, reloadID,
          closed, hour, task, ruleFile, cfg, cfgTmp, usedIds, budget,
          hist, lastGet>>

(* A goroutine frame.  x holds the locals of the running function.         *)
(* the locals of a goroutine that holds none                               *)
NoLocals == [none |-> TRUE]

Frame(kind, pc, id, ctx, par) ==
    [kind |-> kind, pc |-> pc, id |-> id, n |-> 0, due |-> 0, err |-> FALSE,
     par |-> par, ctx |-> ctx, ids |-> {}, x |-> NoLocals, late |-> FALSE,
     sup |-> FALSE, adv |-> FALSE]

Idle == Frame("idle", "idle", 0, "none", -1)

Free(t) == task[t].kind = "idle"
HasFree == \E s \in Tasks : Free(s)
FreeSlot == CHOOSE s \in Tasks : Free(s) /\ \A u \in Tasks : Free(u) => s <= u

(* ctx.Err() != nil: only contexts derived from p.ctx are cancelled by     *)
(* Close; a request context is treated as live while the callback runs.    *)
CtxErr(ctx) == ctx = "root" /\ closed

(* sync.RWMutex and sync.Mutex.                                            *)
CanRLock == mu.w = -1
CanLock == mu.w = -1 /\ mu.r = {}
RLocked(t) == [mu EXCEPT !.r = @ \cup {t}]
RUnlocked(t) == [mu EXCEPT !.r = @ \ {t}]
Locked(t) == [mu EXCEPT !.w = t]
Unlocked == [mu EXCEPT !.w = -1]

Spend(k) == [budget EXCEPT ![k] = @ - 1]

-----------------------------------------------------------------------------
(* Initial state: the plugin as newAdguardRule returns it.                 *)

InitRules(e1, e2) ==
    (1 :> OnlineRule("a", "u1", e1, TRUE, 1, parseRules(Remote("u1")).count, 1))
    @@ (2 :> OnlineRule("b", "u2", e2, FALSE, 0, parseRules(Remote("u2")).count, 1))

(* The rules reloadAllRules builds from the files of the lists in ids.     *)
BuildAllow(ids, files) ==
    UNION {parseRules(files[i].lines).allow : i \in {j \in ids : files[j].exists}}
BuildDeny(ids, files) ==
    UNION {parseRules(files[i].lines).deny : i \in {j \in ids : files[j].exists}}

(* A request body of POST /rules and PUT /rules/{id}.                       *)
Body(name, url, enabled, auto, interval) ==
    [name |-> name, url |-> url, enabled |-> enabled, auto_update |-> auto,
     update_interval_hours |-> interval]

NoBody == Body("", "", FALSE, FALSE, 0)

InitHist ==
    [lastMut |-> [i \in InitIds \cup UuidPool |-> -1],
     ack |-> [i \in InitIds \cup UuidPool |-> "none"],
     val |-> [i \in InitIds \cup UuidPool |-> NoBody],
     anyOk |-> FALSE,
     reloadAfterClose |-> FALSE,
     lateEffect |-> FALSE,
     age |-> reloadDebounceDur,
     supRan |-> FALSE,
     staleRan |-> FALSE,
     early |-> FALSE]

InitBase ==
    /\ \E e1 \in BOOLEAN, e2 \in BOOLEAN :
         /\ onlineRules = InitRules(e1, e2)
         /\ LET en == {i \in InitIds : InitRules(e1, e2)[i].enabled}
                fs == [i \in InitIds \cup UuidPool |->
                         IF i \in InitIds THEN FileOf(Remote(InitRules(e1, e2)[i].url))
                         ELSE NoFile]
            IN  /\ ruleFile = fs
                /\ allowMatcher = Matcher(0, 0, BuildAllow(en, fs))
                /\ denyMatcher = Matcher(0, 0, BuildDeny(en, fs))
         /\ cfg = [exists |-> TRUE, data |-> Serialize(InitRules(e1, e2)),
                   complete |-> TRUE, writers |-> {}]
    /\ cfgTmp = NoCfg
    /\ mu = [w |-> -1, r |-> {}]
    /\ reloadMu = -1
    /\ reloadID = 0
    /\ closed = FALSE
    /\ hour = 1
    /\ task = [t \in AllTasks |->
                 IF t = Updater THEN Frame("updater", "u_delay", 0, "root", -1)
                 ELSE Idle]
    /\ usedIds = {}
    /\ hist = InitHist
    /\ lastGet = [resp |-> <<>>, ack |-> InitHist.ack, val |-> InitHist.val]


-----------------------------------------------------------------------------
(* History bookkeeping (no effect on the program).                         *)

(* task t has changed list id in memory to the values v                    *)
Mutated(h, id, t, v) ==
    [h EXCEPT !.lastMut[id] = t, !.ack[id] = "none", !.val[id] = v]

(* the handler run by task t has answered success for its change of id     *)
Acked(h, id, t, what) ==
    IF h.lastMut[id] = t
    THEN [h EXCEPT !.ack[id] = what, !.anyOk = TRUE]
    ELSE [h EXCEPT !.anyOk = TRUE]

-----------------------------------------------------------------------------
(* Match (the hot path).                                                   *)

(* Match without waiting for the writer to release p.mu                    *)
Match_RLockUnguarded(t, d) ==
    /\ HasFree /\ t = FreeSlot
    /\ budget.match > 0
    /\ mu' = RLocked(t)
    /\ budget' = Spend("match")
    /\ task' = [task EXCEPT ![t] =
                  [Frame("match", "m_allow", 0, "none", -1) EXCEPT
                     !.x = [d |-> d, aGen |-> -1, dGen |-> -1, blocked |-> FALSE]]]
    /\ UNCHANGED <<onlineRules, allowMatcher, denyMatcher, reloadMu, reloadID,
                   closed, hour, ruleFile, cfg, cfgTmp, usedIds, hist, lastGet>>

Match_RLock(t, d) ==
    /\ HasFree /\ t = FreeSlot
    /\ budget.match > 0
    /\ CanRLock
    /\ mu' = RLocked(t)
    /\ budget' = Spend("match")
    /\ task' = [task EXCEPT ![t] =
                  [Frame("match", "m_allow", 0, "none", -1) EXCEPT
                     !.x = [d |-> d, aGen |-> -1, dGen |-> -1, blocked |-> FALSE]]]
    /\ UNCHANGED <<onlineRules, allowMatcher, denyMatcher, reloadMu, reloadID,
                   closed, hour, ruleFile, cfg, cfgTmp, usedIds, hist, lastGet>>

(* Match going on to the deny matcher whatever the allow matcher says      *)
Match_AllowIgnored(t) ==
    /\ task[t].kind = "match" /\ task[t].pc = "m_allow"
    /\ task' = [task EXCEPT ![t].pc = "m_deny", ![t].x.aGen = allowMatcher.gen]
    /\ UNCHANGED <<onlineRules, allowMatcher, denyMatcher, mu, reloadMu, reloadID,
                   closed, hour, ruleFile, cfg, cfgTmp, usedIds, budget,
                   hist, lastGet>>

(* if _, matched := p.allowMatcher.Match(domainStr); matched { return false } *)
Match_Allow(t) ==
    /\ task[t].kind = "match" /\ task[t].pc = "m_allow"
    /\ LET hit == MatcherMatch(allowMatcher.rules, task[t].x.d)
       IN  task' = [task EXCEPT ![t].pc = IF hit THEN "m_ret" ELSE "m_deny",
                                ![t].x.aGen = allowMatcher.gen,
                                ![t].x.blocked = FALSE]
    /\ UNCHANGED <<onlineRules, allowMatcher, denyMatcher, mu, reloadMu, reloadID,
                   closed, hour, ruleFile, cfg, cfgTmp, usedIds, budget,
                   hist, lastGet>>

(* if _, matched := p.denyMatcher.Match(domainStr); matched { return true } *)
Match_Deny(t) ==
    /\ task[t].kind = "match" /\ task[t].pc = "m_deny"
    /\ task' = [task EXCEPT ![t].pc = "m_ret",
                            ![t].x.dGen = denyMatcher.gen,
                            ![t].x.blocked = MatcherMatch(denyMatcher.rules, task[t].x.d)]
    /\ UNCHANGED <<onlineRules, allowMatcher, denyMatcher, mu, reloadMu, reloadID,
                   closed, hour, ruleFile, cfg, cfgTmp, usedIds, budget,
                   hist, lastGet>>

(* the deferred RUnlock and the return                                     *)
Match_Return(t) ==
    /\ task[t].kind = "match" /\ task[t].pc = "m_ret"
    /\ mu' = RUnlocked(t)
    /\ task' = [task EXCEPT ![t] = Idle]
    /\ UNCHANGED <<onlineRules, allowMatcher, denyMatcher, reloadMu, reloadID,
                   closed, hour, ruleFile, cfg, cfgTmp, usedIds, budget,
                   hist, lastGet>>

-----------------------------------------------------------------------------
(* GET /rules.                                                             *)

(* the sequences holding every list once, ascending by name                *)
SortedByName(rules) ==
    {q \in [1..Cardinality(DOMAIN rules) -> DOMAIN rules] :
        /\ \A i, j \in DOMAIN q : i # j => q[i] # q[j]
        /\ \A i, j \in DOMAIN q :
             i < j => NameRank(rules[q[i]].name) <= NameRank(rules[q[j]].name)}

api_GetRules ==
    /\ budget.get > 0
    /\ CanRLock
    /\ \E q \in SortedByName(onlineRules) :
         lastGet' = [resp |-> [i \in DOMAIN q |-> MarshalJSON(q[i], onlineRules[q[i]])],
                     ack |-> hist.ack, val |-> hist.val]
    /\ budget' = Spend("get")
    /\ UNCHANGED <<onlineRules, allowMatcher, denyMatcher, mu, reloadMu, reloadID,
                   closed, hour, task, ruleFile, cfg, cfgTmp, usedIds, hist>>

-----------------------------------------------------------------------------
(* saveConfig, called by the handlers, by downloadRule and by the          *)
(* goroutine of updateAllRuleCounts.  The caller's frame is at pc "save".  *)

(* RLock, the sort and json.MarshalIndent                                  *)
saveConfig_Marshal(t) ==
    /\ task[t].pc = "save"
    /\ CanRLock
    /\ mu' = RLocked(t)
    /\ task' = [task EXCEPT ![t].pc = "save_open", ![t].x = [data |-> Serialize(onlineRules)]]
    /\ UNCHANGED <<onlineRules, allowMatcher, denyMatcher, reloadMu, reloadID,
                   closed, hour, ruleFile, cfg, cfgTmp, usedIds, budget,
                   hist, lastGet>>

(* os.WriteFile: open(tmpFile, O_WRONLY|O_CREATE|O_TRUNC)                  *)
saveConfig_Open(t) ==
    /\ task[t].pc = "save_open"
    /\ cfgTmp' = [exists |-> TRUE, data |-> <<>>, complete |-> FALSE,
                  writers |-> (IF cfgTmp.exists THEN cfgTmp.writers ELSE {}) \cup {t}]
    /\ task' = [task EXCEPT ![t].pc = "save_write"]
    /\ UNCHANGED <<onlineRules, allowMatcher, denyMatcher, mu, reloadMu, reloadID,
                   closed, hour, ruleFile, cfg, usedIds, budget, hist, lastGet>>

(* os.WriteFile: write and close, on the inode that was opened, whatever   *)
(* name it has by now                                                      *)
saveConfig_Write(t) ==
    /\ task[t].pc = "save_write"
    /\ cfgTmp' = IF cfgTmp.exists /\ t \in cfgTmp.writers
                 THEN [cfgTmp EXCEPT !.data = task[t].x.data, !.complete = TRUE,
                                     !.writers = @ \ {t}]
                 ELSE cfgTmp
    /\ cfg' = IF ~(cfgTmp.exists /\ t \in cfgTmp.writers) /\ cfg.exists /\ t \in cfg.writers
              THEN [cfg EXCEPT !.data = task[t].x.data, !.complete = TRUE,
                               !.writers = @ \ {t}]
              ELSE cfg
    /\ task' = [task EXCEPT ![t].pc = "save_rename"]
    /\ UNCHANGED <<onlineRules, allowMatcher, denyMatcher, mu, reloadMu, reloadID,
                   closed, hour, ruleFile, usedIds, budget, hist, lastGet>>

(* os.WriteFile fails after it has created the file (a write error such   *)
(* as a full disk): saveConfig returns the error, the deferred RUnlock     *)
saveConfig_WriteFail(t) ==
    /\ task[t].pc = "save_write"
    /\ budget.fault > 0
    /\ budget' = Spend("fault")
    /\ cfgTmp' = IF cfgTmp.exists /\ t \in cfgTmp.writers
                 THEN [cfgTmp EXCEPT !.writers = @ \ {t}]
                 ELSE cfgTmp
    /\ cfg' = IF ~(cfgTmp.exists /\ t \in cfgTmp.writers) /\ cfg.exists /\ t \in cfg.writers
              THEN [cfg EXCEPT !.writers = @ \ {t}]
              ELSE cfg
    /\ mu' = RUnlocked(t)
    /\ task' = [task EXCEPT ![t].pc = "save_done", ![t].err = TRUE,
                            ![t].x = NoLocals]
    /\ UNCHANGED <<onlineRules, allowMatcher, denyMatcher, reloadMu, reloadID,
                   closed, hour, ruleFile, usedIds, hist, lastGet>>

(* os.Rename(tmpFile, p.configFile), the deferred RUnlock and the return   *)
saveConfig_Rename(t) ==
    /\ task[t].pc = "save_rename"
    /\ cfg' = IF cfgTmp.exists THEN cfgTmp ELSE cfg
    /\ cfgTmp' = NoCfg
    /\ mu' = RUnlocked(t)
    /\ task' = [task EXCEPT ![t].pc = "save_done", ![t].err = ~cfgTmp.exists,
                            ![t].x = NoLocals]
    /\ UNCHANGED <<onlineRules, allowMatcher, denyMatcher, reloadMu, reloadID,
                   closed, hour, ruleFile, usedIds, budget, hist, lastGet>>


-----------------------------------------------------------------------------
(* Request validation of POST and PUT.                                     *)

TrimSpace(s) == IF s = " " THEN "" ELSE s

Trimmed(b) == [b EXCEPT !.name = TrimSpace(b.name), !.url = TrimSpace(b.url)]

(* a validation that accepts a negative interval                           *)
ValidAnyInterval(b) == TrimSpace(b.name) # "" /\ TrimSpace(b.url) # ""

Valid(b) ==
    /\ TrimSpace(b.name) # "" /\ TrimSpace(b.url) # ""
    /\ b.update_interval_hours >= 0

(* Request bodies the environment sends.                                   *)
BodyOn == Body("b", "u1", TRUE, TRUE, 1)
BodyOff == Body("a", "u2", FALSE, FALSE, 0)
BodyBlank == Body(" ", "u1", TRUE, FALSE, 0)
BodyNegative == Body("a", "u1", TRUE, FALSE, -1)
(* a body that also carries id, rule_count and last_updated                *)
BodyForeign ==
    [name |-> "b", url |-> "u2", enabled |-> TRUE, auto_update |-> TRUE,
     update_interval_hours |-> 2, id |-> 2, rule_count |-> 7, last_updated |-> 2]
Bodies == {BodyOn, BodyOff, BodyBlank, BodyNegative, BodyForeign}

AllIds == InitIds \cup UuidPool

Without(rules, id) == [i \in DOMAIN rules \ {id} |-> rules[i]]

-----------------------------------------------------------------------------
(* PUT /rules/{id}.                                                        *)

(* 400: the body does not validate                                         *)
api_PutRules_Invalid(id, b) ==
    /\ budget.put > 0
    /\ id \in budget.ids /\ b \in budget.bodies
    /\ ~Valid(b)
    /\ budget' = Spend("put")
    /\ hist' = hist
    /\ UNCHANGED <<onlineRules, allowMatcher, denyMatcher, mu, reloadMu, reloadID,
                   closed, hour, task, ruleFile, cfg, cfgTmp, usedIds, lastGet>>

(* 404: p.mu.Lock(); rule, ok := p.onlineRules[id]; !ok                    *)
api_PutRules_NotFound(id, b) ==
    /\ budget.put > 0
    /\ id \in budget.ids /\ b \in budget.bodies
    /\ Valid(b)
    /\ CanLock
    /\ id \notin DOMAIN onlineRules
    /\ budget' = Spend("put")
    /\ hist' = hist
    /\ UNCHANGED <<onlineRules, allowMatcher, denyMatcher, mu, reloadMu, reloadID,
                   closed, hour, task, ruleFile, cfg, cfgTmp, usedIds, lastGet>>

(* a handler that stores every field the body carries                      *)
PutWholeBody(r, b) ==
    [r EXCEPT !.name = Trimmed(b).name, !.url = Trimmed(b).url,
              !.enabled = b.enabled, !.auto_update = b.auto_update,
              !.update_interval_hours = b.update_interval_hours,
              !.rule_count = IF "rule_count" \in DOMAIN b THEN b.rule_count ELSE @,
              !.last_updated = IF "last_updated" \in DOMAIN b
                               THEN b.last_updated ELSE @]

(* rule.Name, rule.URL, rule.Enabled, rule.AutoUpdate and                  *)
(* rule.UpdateIntervalHours are assigned from the decoded body             *)
PutFields(r, b) ==
    [r EXCEPT !.name = Trimmed(b).name, !.url = Trimmed(b).url,
              !.enabled = b.enabled, !.auto_update = b.auto_update,
              !.update_interval_hours = b.update_interval_hours]

(* the five field writes under p.mu.Lock()                                 *)
api_PutRules_Mutate(t, id, b) ==
    /\ HasFree /\ t = FreeSlot
    /\ budget.put > 0
    /\ id \in budget.ids /\ b \in budget.bodies
    /\ Valid(b)
    /\ CanLock
    /\ id \in DOMAIN onlineRules
    /\ onlineRules' = [onlineRules EXCEPT ![id] = PutFields(@, b)]
    /\ budget' = Spend("put")
    /\ task' = [task EXCEPT ![t] = Frame("put", "save", id, "req", -1)]
    /\ hist' = Mutated(hist, id, t, Trimmed(b))
    /\ UNCHANGED <<allowMatcher, denyMatcher, mu, reloadMu, reloadID, closed,
                   hour, ruleFile, cfg, cfgTmp, usedIds, lastGet>>

(* after saveConfig: 500, or on to triggerReload                           *)
api_PutRules_Saved(t) ==
    /\ task[t].kind = "put" /\ task[t].pc = "save_done"
    /\ IF task[t].err
       THEN /\ task' = [task EXCEPT ![t] = Idle]
            /\ hist' = hist
       ELSE /\ task' = [task EXCEPT ![t].pc = "trig"]
            /\ hist' = hist
    /\ UNCHANGED <<onlineRules, allowMatcher, denyMatcher, mu, reloadMu, reloadID,
                   closed, hour, ruleFile, cfg, cfgTmp, usedIds, budget, lastGet>>

-----------------------------------------------------------------------------
(* DELETE /rules/{id}.                                                     *)

api_DeleteRules_NotFound(id) ==
    /\ budget.delete > 0
    /\ id \in budget.ids
    /\ CanLock
    /\ id \notin DOMAIN onlineRules
    /\ budget' = Spend("delete")
    /\ hist' = hist
    /\ UNCHANGED <<onlineRules, allowMatcher, denyMatcher, mu, reloadMu, reloadID,
                   closed, hour, task, ruleFile, cfg, cfgTmp, usedIds, lastGet>>

(* delete(p.onlineRules, id) under p.mu.Lock(); a goroutine of POST that   *)
(* still holds the struct keeps the value it had                           *)
api_DeleteRules_Mutate(t, id) ==
    /\ HasFree /\ t = FreeSlot
    /\ budget.delete > 0
    /\ id \in budget.ids
    /\ CanLock
    /\ id \in DOMAIN onlineRules
    /\ onlineRules' = Without(onlineRules, id)
    /\ budget' = Spend("delete")
    /\ task' = [u \in AllTasks |->
                  IF u = t THEN Frame("delete", "del_rm", id, "req", -1)
                  ELSE IF task[u].kind = "postgo" /\ task[u].pc = "pg_check"
                          /\ task[u].id = id
                       THEN [task[u] EXCEPT !.x = [enabled |-> onlineRules[id].enabled]]
                       ELSE task[u]]
    /\ hist' = Mutated(hist, id, t, NoBody)
    /\ UNCHANGED <<allowMatcher, denyMatcher, mu, reloadMu, reloadID, closed,
                   hour, ruleFile, cfg, cfgTmp, usedIds, lastGet>>

(* os.Remove(localPath)                                                    *)
api_DeleteRules_Remove(t) ==
    /\ task[t].kind = "delete" /\ task[t].pc = "del_rm"
    /\ ruleFile' = [ruleFile EXCEPT ![task[t].id] = NoFile]
    /\ task' = [task EXCEPT ![t].pc = "save"]
    /\ UNCHANGED <<onlineRules, allowMatcher, denyMatcher, mu, reloadMu, reloadID,
                   closed, hour, cfg, cfgTmp, usedIds, budget, hist, lastGet>>

api_DeleteRules_Saved(t) ==
    /\ task[t].kind = "delete" /\ task[t].pc = "save_done"
    /\ IF task[t].err
       THEN /\ task' = [task EXCEPT ![t] = Idle]
            /\ hist' = hist
       ELSE /\ task' = [task EXCEPT ![t].pc = "trig"]
            /\ hist' = hist
    /\ UNCHANGED <<onlineRules, allowMatcher, denyMatcher, mu, reloadMu, reloadID,
                   closed, hour, ruleFile, cfg, cfgTmp, usedIds, budget, lastGet>>

-----------------------------------------------------------------------------
(* POST /rules.                                                            *)

api_PostRules_Invalid(b) ==
    /\ budget.post > 0
    /\ b \in budget.bodies
    /\ ~Valid(b)
    /\ budget' = Spend("post")
    /\ hist' = hist
    /\ UNCHANGED <<onlineRules, allowMatcher, denyMatcher, mu, reloadMu, reloadID,
                   closed, hour, task, ruleFile, cfg, cfgTmp, usedIds, lastGet>>

(* uuid.New, LastUpdated = time.Time{}, the insert under p.mu.Lock()       *)
api_PostRules_Insert(t, id, b) ==
    /\ HasFree /\ t = FreeSlot
    /\ budget.post > 0
    /\ b \in budget.bodies
    /\ Valid(b)
    /\ id \in UuidPool \ usedIds
    /\ CanLock
    /\ usedIds' = usedIds \cup {id}
    /\ onlineRules' = (id :> OnlineRule(Trimmed(b).name, Trimmed(b).url, b.enabled,
                                        b.auto_update, b.update_interval_hours, 0, 0))
                      @@ onlineRules
    /\ budget' = Spend("post")
    /\ task' = [task EXCEPT ![t] = Frame("post", "save", id, "req", -1)]
    /\ hist' = Mutated(hist, id, t, Trimmed(b))
    /\ UNCHANGED <<allowMatcher, denyMatcher, mu, reloadMu, reloadID, closed,
                   hour, ruleFile, cfg, cfgTmp, lastGet>>

(* after saveConfig: 500, or the go statement and the 201 response; the    *)
(* frame goes on as the goroutine                                          *)
api_PostRules_Saved(t) ==
    /\ task[t].kind = "post" /\ task[t].pc = "save_done"
    /\ IF task[t].err
       THEN /\ task' = [task EXCEPT ![t] = Idle]
            /\ hist' = hist
       ELSE /\ task' = [task EXCEPT ![t] =
                          [Frame("postgo", "pg_check", task[t].id, "root", -1) EXCEPT
                             !.x = [enabled |-> FALSE]]]
            /\ hist' = Acked(hist, task[t].id, t, "post")
    /\ UNCHANGED <<onlineRules, allowMatcher, denyMatcher, mu, reloadMu, reloadID,
                   closed, hour, ruleFile, cfg, cfgTmp, usedIds, budget, lastGet>>

(* go func: if newRule.Enabled { downloadRule; triggerReload }; newRule is *)
(* the struct the map points to                                            *)
api_PostRules_Go(t) ==
    /\ task[t].kind = "postgo" /\ task[t].pc = "pg_check"
    /\ LET en == IF task[t].id \in DOMAIN onlineRules
                 THEN onlineRules[task[t].id].enabled ELSE task[t].x.enabled
       IN  task' = [task EXCEPT ![t] = IF en THEN [task[t] EXCEPT !.pc = "dl"] ELSE Idle]
    /\ UNCHANGED <<onlineRules, allowMatcher, denyMatcher, mu, reloadMu, reloadID,
                   closed, hour, ruleFile, cfg, cfgTmp, usedIds, budget,
                   hist, lastGet>>


-----------------------------------------------------------------------------
(* triggerReload.  The caller's frame is at pc "trig".                     *)

(* currentReloadID := p.reloadID.Add(1)                                    *)
triggerReload_Add(t) ==
    /\ task[t].pc = "trig"
    /\ reloadID' = reloadID + 1
    /\ task' = [u \in AllTasks |->
                  IF u = t THEN [task[t] EXCEPT !.pc = "arm", !.n = reloadID + 1]
                  ELSE IF task[u].n = reloadID /\ reloadID > 0
                          /\ hist.age < reloadDebounceDur
                       THEN [task[u] EXCEPT !.sup = TRUE]
                       ELSE task[u]]
    /\ hist' = [hist EXCEPT !.age = 0]
    /\ UNCHANGED <<onlineRules, allowMatcher, denyMatcher, mu, reloadMu, closed,
                   hour, ruleFile, cfg, cfgTmp, usedIds, budget, lastGet>>

(* the time left until a timer armed now may fire                          *)
Deadline == reloadDebounceDur

(* what the caller does when triggerReload has returned                    *)
AfterTrigger(f) ==
    IF f.kind = "updater" THEN [f EXCEPT !.pc = "u_select", !.n = 0] ELSE Idle

(* time.AfterFunc(reloadDebounceDur, ...), then the caller's return: PUT   *)
(* answers 200, DELETE 204, the goroutines end, the updater loops          *)
triggerReload_AfterFunc(t) ==
    /\ task[t].pc = "arm"
    /\ HasFree
    /\ task' = [task EXCEPT
                  ![FreeSlot] = [Frame("timer", "armed", 0, task[t].ctx, -1) EXCEPT
                                   !.n = task[t].n, !.due = Deadline,
                                   !.sup = task[t].sup],
                  ![t] = AfterTrigger(task[t])]
    /\ hist' = CASE task[t].kind = "put" ->
                      Acked(hist, task[t].id, t, "put")
                 [] task[t].kind = "delete" ->
                      Acked(hist, task[t].id, t, "delete")
                 [] OTHER -> hist
    /\ UNCHANGED <<onlineRules, allowMatcher, denyMatcher, mu, reloadMu, reloadID,
                   closed, hour, ruleFile, cfg, cfgTmp, usedIds, budget, lastGet>>

(* the timer fires: if p.ctx.Err() != nil { return }                       *)
triggerReload_Fire(t) ==
    /\ task[t].kind = "timer" /\ task[t].pc = "armed"
    /\ task[t].due = 0
    /\ task' = [task EXCEPT ![t] = IF CtxErr("root") THEN Idle
                                   ELSE [task[t] EXCEPT !.pc = "cb_id"]]
    /\ UNCHANGED <<onlineRules, allowMatcher, denyMatcher, mu, reloadMu, reloadID,
                   closed, hour, ruleFile, cfg, cfgTmp, usedIds, budget,
                   hist, lastGet>>

(* a callback that reloads whatever p.reloadID holds                       *)
StillCurrentAlways(t) == TRUE

(* a callback that gives up when another reload is running                 *)
StillCurrentAndIdle(t) == reloadID = task[t].n /\ reloadMu = -1

(* p.reloadID.Load() == currentReloadID                                    *)
StillCurrent(t) == reloadID = task[t].n

(* if p.reloadID.Load() == currentReloadID { p.reloadAllRules(ctx, false) } *)
triggerReload_CheckID(t) ==
    /\ task[t].kind = "timer" /\ task[t].pc = "cb_id"
    /\ IF StillCurrent(t)
       THEN /\ task' = [task EXCEPT ![t].pc = "rl_mu"]
            /\ hist' = [hist EXCEPT !.supRan = @ \/ task[t].sup,
                                    !.staleRan = @ \/ (reloadID # task[t].n),
                                    !.early = @ \/ (hist.age < reloadDebounceDur),
                                    !.reloadAfterClose = @ \/ closed]
       ELSE /\ task' = [task EXCEPT ![t] = Idle]
            /\ hist' = hist
    /\ UNCHANGED <<onlineRules, allowMatcher, denyMatcher, mu, reloadMu, reloadID,
                   closed, hour, ruleFile, cfg, cfgTmp, usedIds, budget, lastGet>>

-----------------------------------------------------------------------------
(* reloadAllRules(ctx, false) and updateAllRuleCounts.                     *)

(* p.reloadMu.Lock()                                                       *)
(* a reloadAllRules that does not wait for p.reloadMu                      *)
reloadAllRules_LockFree(t) ==
    /\ task[t].pc = "rl_mu"
    /\ reloadMu' = t
    /\ task' = [task EXCEPT ![t].pc = "rl_snap"]
    /\ UNCHANGED <<onlineRules, allowMatcher, denyMatcher, mu, reloadID, closed,
                   hour, ruleFile, cfg, cfgTmp, usedIds, budget, hist, lastGet>>

reloadAllRules_Lock(t) ==
    /\ task[t].pc = "rl_mu"
    /\ reloadMu = -1
    /\ reloadMu' = t
    /\ task' = [task EXCEPT ![t].pc = "rl_snap"]
    /\ UNCHANGED <<onlineRules, allowMatcher, denyMatcher, mu, reloadID, closed,
                   hour, ruleFile, cfg, cfgTmp, usedIds, budget, hist, lastGet>>

(* a snapshot that takes every rule of the map, enabled or not             *)
enabledRulesUnfiltered == DOMAIN onlineRules

(* enabledRules: the rules of the map with rule.Enabled                    *)
enabledRules == {i \in DOMAIN onlineRules : onlineRules[i].enabled}

(* a reload that gives up p.reloadMu as soon as it has its snapshot        *)
reloadAllRules_SnapshotOnly(t) ==
    /\ task[t].pc = "rl_snap"
    /\ CanRLock
    /\ reloadMu' = -1
    /\ task' = [task EXCEPT
                  ![t].pc = IF task[t].kind = "init" THEN "il_stat" ELSE "urc_lock",
                  ![t].ids = enabledRules,
                  ![t].x = [allow |-> {}, deny |-> {}, asof |-> reloadID,
                            man |-> [i \in DOMAIN onlineRules |->
                                       onlineRules[i].enabled],
                            files |-> [i \in AllIds |-> NoFile]]]
    /\ UNCHANGED <<onlineRules, allowMatcher, denyMatcher, mu, reloadID,
                   closed, hour, ruleFile, cfg, cfgTmp, usedIds, budget,
                   hist, lastGet>>

(* the snapshot of the enabled rules under p.mu.RLock(); man and files     *)
(* record what the reload saw: the enabled flags of the manifest now and,  *)
(* later, each rule file as it was when the reload opened it               *)
reloadAllRules_Snapshot(t) ==
    /\ task[t].pc = "rl_snap"
    /\ CanRLock
    /\ task' = [task EXCEPT
                  ![t].pc = IF task[t].kind = "init" THEN "il_stat" ELSE "urc_lock",
                  ![t].ids = enabledRules,
                  ![t].x = [allow |-> {}, deny |-> {}, asof |-> reloadID,
                            man |-> [i \in DOMAIN onlineRules |->
                                       onlineRules[i].enabled],
                            files |-> [i \in AllIds |-> NoFile]]]
    /\ UNCHANGED <<onlineRules, allowMatcher, denyMatcher, mu, reloadMu, reloadID,
                   closed, hour, ruleFile, cfg, cfgTmp, usedIds, budget,
                   hist, lastGet>>

(* initialLoad: os.Stat(rule.localPath) of one enabled rule and, when the  *)
(* file does not exist, wg.Add(1) and the go statement of its download,    *)
(* whose context derives from context.Background(); ids holds the rules of *)
(* enabledRules this loop has not come to yet                              *)
reloadAllRules_InitialStat(t, id) ==
    /\ task[t].pc = "il_stat"
    /\ id \in task[t].ids
    /\ ~ruleFile[id].exists => HasFree
    /\ task' = [u \in AllTasks |->
                  IF u = t THEN [task[t] EXCEPT !.ids = @ \ {id}]
                  ELSE IF ~ruleFile[id].exists /\ u = FreeSlot
                       THEN Frame("dl", "dl", id, "bg", t)
                       ELSE task[u]]
    /\ UNCHANGED <<onlineRules, allowMatcher, denyMatcher, mu, reloadMu, reloadID,
                   closed, hour, ruleFile, cfg, cfgTmp, usedIds, budget,
                   hist, lastGet>>

(* initialLoad: wg.Wait() returns, with p.reloadMu still held; ids is again *)
(* enabledRules, for the parse loop                                        *)
reloadAllRules_InitialWait(t) ==
    /\ task[t].pc = "il_stat"
    /\ task[t].ids = {}
    /\ \A u \in Tasks : task[u].par # t
    /\ task' = [task EXCEPT
                  ![t].pc = "urc_lock",
                  ![t].ids = {i \in DOMAIN task[t].x.man : task[t].x.man[i]}]
    /\ UNCHANGED <<onlineRules, allowMatcher, denyMatcher, mu, reloadMu, reloadID,
                   closed, hour, ruleFile, cfg, cfgTmp, usedIds, budget,
                   hist, lastGet>>

(* updateAllRuleCounts: p.mu.Lock()                                        *)
updateAllRuleCounts_Lock(t) ==
    /\ task[t].pc = "urc_lock"
    /\ CanLock
    /\ mu' = Locked(t)
    /\ task' = [task EXCEPT ![t].pc = "urc"]
    /\ UNCHANGED <<onlineRules, allowMatcher, denyMatcher, reloadMu, reloadID, closed,
                   hour, ruleFile, cfg, cfgTmp, usedIds, budget, hist, lastGet>>

(* the count of one list as updateAllRuleCounts obtains it                 *)
CountOf(id) == IF ruleFile[id].exists THEN parseRules(ruleFile[id].lines).count ELSE 0

(* a refresh that never reports a change                                   *)
CountsChangedNever == FALSE

(* changed: some list's rule_count differs from the count of its file      *)
CountsChanged ==
    \E i \in DOMAIN onlineRules : onlineRules[i].rule_count # CountOf(i)

(* an updateAllRuleCounts that calls saveConfig itself, before its         *)
(* deferred Unlock, instead of in a goroutine                              *)
updateAllRuleCounts_RefreshInline(t) ==
    /\ task[t].pc = "urc"
    /\ onlineRules' = [i \in DOMAIN onlineRules |->
                         [onlineRules[i] EXCEPT !.rule_count = CountOf(i)]]
    /\ task' = [task EXCEPT ![t].pc = IF CountsChanged THEN "save" ELSE "rl_parse"]
    /\ mu' = IF CountsChanged THEN mu ELSE Unlocked
    /\ UNCHANGED <<allowMatcher, denyMatcher, reloadMu, reloadID, closed, hour,
                   ruleFile, cfg, cfgTmp, usedIds, budget, hist, lastGet>>

(* updateAllRuleCounts: every file is opened and parsed with p.mu held,    *)
(* the counts are stored, go saveConfig when one changed, Unlock           *)
updateAllRuleCounts_Refresh(t) ==
    /\ task[t].pc = "urc"
    /\ LET changed == CountsChanged
       IN  /\ changed => HasFree
           /\ onlineRules' = [i \in DOMAIN onlineRules |->
                                [onlineRules[i] EXCEPT !.rule_count = CountOf(i)]]
           /\ task' = [u \in AllTasks |->
                         IF u = t THEN [task[t] EXCEPT !.pc = "rl_parse"]
                         ELSE IF changed /\ u = FreeSlot
                              THEN Frame("save", "save", 0, "none", -1)
                              ELSE task[u]]
    /\ mu' = Unlocked
    /\ UNCHANGED <<allowMatcher, denyMatcher, reloadMu, reloadID, closed, hour,
                   ruleFile, cfg, cfgTmp, usedIds, budget, hist, lastGet>>

(* the goroutine of updateAllRuleCounts ends when saveConfig has returned  *)
updateAllRuleCounts_Saved(t) ==
    /\ task[t].kind = "save" /\ task[t].pc = "save_done"
    /\ task' = [task EXCEPT ![t] = Idle]
    /\ UNCHANGED <<onlineRules, allowMatcher, denyMatcher, mu, reloadMu, reloadID,
                   closed, hour, ruleFile, cfg, cfgTmp, usedIds, budget,
                   hist, lastGet>>

(* os.Open(rule.localPath) and parseRules for one enabled rule of the      *)
(* snapshot; a file that cannot be opened is skipped                       *)
reloadAllRules_Parse(t, id) ==
    /\ task[t].pc = "rl_parse"
    /\ id \in task[t].ids
    /\ task' = [task EXCEPT
                  ![t].ids = @ \ {id},
                  ![t].x.files = [@ EXCEPT ![id] = ruleFile[id]],
                  ![t].x.allow = IF ruleFile[id].exists
                                 THEN @ \cup parseRules(ruleFile[id].lines).allow ELSE @,
                  ![t].x.deny = IF ruleFile[id].exists
                                THEN @ \cup parseRules(ruleFile[id].lines).deny ELSE @]
    /\ UNCHANGED <<onlineRules, allowMatcher, denyMatcher, mu, reloadMu, reloadID,
                   closed, hour, ruleFile, cfg, cfgTmp, usedIds, budget,
                   hist, lastGet>>

(* p.mu.Lock() before the swap                                             *)
reloadAllRules_SwapLock(t) ==
    /\ task[t].pc = "rl_parse"
    /\ task[t].ids = {}
    /\ CanLock
    /\ mu' = Locked(t)
    /\ task' = [task EXCEPT ![t].pc = "rl_allow"]
    /\ UNCHANGED <<onlineRules, allowMatcher, denyMatcher, reloadMu, reloadID, closed,
                   hour, ruleFile, cfg, cfgTmp, usedIds, budget, hist, lastGet>>

(* p.allowMatcher = newAllowMatcher                                        *)
reloadAllRules_SetAllow(t) ==
    /\ task[t].pc = "rl_allow"
    /\ allowMatcher' = Matcher(allowMatcher.gen + 1, task[t].x.asof, task[t].x.allow)
    /\ task' = [task EXCEPT ![t].pc = "rl_deny"]
    /\ UNCHANGED <<onlineRules, denyMatcher, mu, reloadMu, reloadID, closed, hour,
                   ruleFile, cfg, cfgTmp, usedIds, budget, hist, lastGet>>

(* p.denyMatcher = newDenyMatcher; p.mu.Unlock(); the deferred             *)
(* p.reloadMu.Unlock()                                                     *)
reloadAllRules_SetDeny(t) ==
    /\ task[t].pc = "rl_deny"
    /\ denyMatcher' = Matcher(denyMatcher.gen + 1, task[t].x.asof, task[t].x.deny)
    /\ mu' = Unlocked
    /\ reloadMu' = -1
    /\ task' = [task EXCEPT ![t] = IF task[t].kind = "init"
                                   THEN [task[t] EXCEPT !.pc = "il_done",
                                                        !.x = NoLocals]
                                   ELSE Idle]
    /\ UNCHANGED <<onlineRules, allowMatcher, reloadID, closed, hour, ruleFile,
                   cfg, cfgTmp, usedIds, budget, hist, lastGet>>

(* newAdguardRule after its reloadAllRules(context.Background(), true):    *)
(* bp.RegAPI(p.api()), go p.backgroundUpdater() and the return; from now   *)
(* on requests and Match calls arrive                                      *)
newAdguardRule_Return(t) ==
    /\ task[t].kind = "init" /\ task[t].pc = "il_done"
    /\ task' = [task EXCEPT ![t] = Idle,
                            ![Updater] = Frame("updater", "u_delay", 0, "root", -1)]
    /\ budget' = [budget EXCEPT !.put = BootRequests, !.match = BootRequests]
    /\ UNCHANGED <<onlineRules, allowMatcher, denyMatcher, mu, reloadMu, reloadID,
                   closed, hour, ruleFile, cfg, cfgTmp, usedIds, hist, lastGet>>

-----------------------------------------------------------------------------
(* downloadRule(ctx, ruleID).  The caller's frame is at pc "dl"; ctx is    *)
(* the context the download context was derived from.                     *)

(* the lookup of name, URL and localPath under p.mu.RLock()                *)
downloadRule_Resolve(t) ==
    /\ task[t].pc = "dl"
    /\ CanRLock
    /\ task' = [task EXCEPT ![t] =
                  IF task[t].id \in DOMAIN onlineRules
                  THEN [task[t] EXCEPT !.pc = "dl_send",
                                       !.x = [url |-> onlineRules[task[t].id].url,
                                              lines |-> {}]]
                  ELSE [task[t] EXCEPT !.pc = "dl_done", !.err = TRUE]]
    /\ UNCHANGED <<onlineRules, allowMatcher, denyMatcher, mu, reloadMu, reloadID,
                   closed, hour, ruleFile, cfg, cfgTmp, usedIds, budget, hist, lastGet>>

(* p.httpClient.Do(req): no request is sent on a cancelled context         *)
downloadRule_Send(t) ==
    /\ task[t].pc = "dl_send"
    /\ task' = [task EXCEPT ![t] =
                  IF CtxErr(task[t].ctx)
                  THEN [task[t] EXCEPT !.pc = "dl_done", !.err = TRUE, !.x = NoLocals]
                  ELSE [task[t] EXCEPT !.pc = "dl_wait", !.late = closed]]
    /\ UNCHANGED <<onlineRules, allowMatcher, denyMatcher, mu, reloadMu, reloadID,
                   closed, hour, ruleFile, cfg, cfgTmp, usedIds, budget, hist, lastGet>>

(* the request fails: network error, status other than 200, cancellation,  *)
(* timeout, or an error of io.Copy; the deferred os.Remove drops the       *)
(* temporary file                                                          *)
downloadRule_Fail(t) ==
    /\ task[t].pc = "dl_wait"
    /\ task' = [task EXCEPT ![t].pc = "dl_done", ![t].err = TRUE, ![t].x = NoLocals]
    /\ UNCHANGED <<onlineRules, allowMatcher, denyMatcher, mu, reloadMu, reloadID,
                   closed, hour, ruleFile, cfg, cfgTmp, usedIds, budget, hist, lastGet>>

(* status 200, os.CreateTemp and io.Copy of the whole body                 *)
downloadRule_Body(t) ==
    /\ task[t].pc = "dl_wait"
    /\ ~CtxErr(task[t].ctx)
    /\ task' = [task EXCEPT ![t].pc = "dl_rename",
                            ![t].x.lines = Remote(task[t].x.url)]
    /\ UNCHANGED <<onlineRules, allowMatcher, denyMatcher, mu, reloadMu, reloadID,
                   closed, hour, ruleFile, cfg, cfgTmp, usedIds, budget, hist, lastGet>>

(* os.Rename(tmpFile.Name(), localPath)                                    *)
downloadRule_Rename(t) ==
    /\ task[t].pc = "dl_rename"
    /\ ruleFile' = [ruleFile EXCEPT ![task[t].id] = FileOf(task[t].x.lines)]
    /\ task' = [task EXCEPT ![t].pc = "dl_stamp", ![t].x.lines = {},
                            ![t].adv = FileOf(task[t].x.lines) # ruleFile[task[t].id]]
    /\ hist' = [hist EXCEPT !.lateEffect = @ \/ task[t].late]
    /\ UNCHANGED <<onlineRules, allowMatcher, denyMatcher, mu, reloadMu, reloadID,
                   closed, hour, cfg, cfgTmp, usedIds, budget, lastGet>>

(* a stamp that also stores back the URL the download was made from        *)
StampedWithURL(r, x, h) == [r EXCEPT !.last_updated = h, !.url = x.url]

(* rule.LastUpdated = time.Now()                                           *)
Stamped(r, x, h) == [r EXCEPT !.last_updated = h]

(* rule.LastUpdated = time.Now() under p.mu.Lock(), if the rule is still   *)
(* in the map; then saveConfig                                             *)
downloadRule_Stamp(t) ==
    /\ task[t].pc = "dl_stamp"
    /\ CanLock
    /\ onlineRules' = IF task[t].id \in DOMAIN onlineRules
                      THEN [onlineRules EXCEPT ![task[t].id] =
                              Stamped(@, task[t].x, hour)]
                      ELSE onlineRules
    /\ task' = [task EXCEPT ![t].pc = "save",
                            ![t].adv = \/ task[t].adv
                                       \/ /\ task[t].id \in DOMAIN onlineRules
                                          /\ onlineRules[task[t].id].last_updated < hour]
    /\ hist' = [hist EXCEPT !.lateEffect =
                  @ \/ (task[t].late /\ task[t].id \in DOMAIN onlineRules)]
    /\ UNCHANGED <<allowMatcher, denyMatcher, mu, reloadMu, reloadID, closed, hour,
                   ruleFile, cfg, cfgTmp, usedIds, budget, lastGet>>

(* downloadRule has returned to its caller                                 *)
Downloaded(f) == f.pc = "dl_done" \/ f.pc = "save_done"

(* a download goroutine of a batch ends: wg.Done()                         *)
download_Done(t) ==
    /\ task[t].kind = "dl" /\ Downloaded(task[t])
    /\ task' = [task EXCEPT ![t] = Idle]
    /\ UNCHANGED <<onlineRules, allowMatcher, denyMatcher, mu, reloadMu, reloadID,
                   closed, hour, ruleFile, cfg, cfgTmp, usedIds, budget, hist, lastGet>>

(* the goroutine of POST /rules goes on to p.triggerReload(p.ctx)          *)
api_PostRules_Downloaded(t) ==
    /\ task[t].kind = "postgo" /\ Downloaded(task[t])
    /\ task' = [task EXCEPT ![t].pc = "trig", ![t].err = FALSE]
    /\ UNCHANGED <<onlineRules, allowMatcher, denyMatcher, mu, reloadMu, reloadID,
                   closed, hour, ruleFile, cfg, cfgTmp, usedIds, budget, hist, lastGet>>

(* a batch whose download contexts are derived from context.Background()  *)
BatchChildBackground(t, id) == Frame("dl", "dl", id, "bg", t)

(* a batch of download goroutines: the contexts are derived from p.ctx     *)
BatchChild(t, id) == Frame("dl", "dl", id, "root", t)

(* wg.Wait() returns                                                       *)
BatchDone(t) == task[t].ids = {} /\ \A u \in Tasks : task[u].par # t

-----------------------------------------------------------------------------
(* POST /update.                                                           *)

(* 202, and the goroutine's snapshot of the enabled rules under RLock      *)
api_Update_Start(t) ==
    /\ HasFree /\ t = FreeSlot
    /\ budget.update > 0
    /\ CanRLock
    /\ budget' = Spend("update")
    /\ task' = [task EXCEPT ![t] =
                  [Frame("update", "up_spawn", 0, "root", -1) EXCEPT
                     !.ids = {i \in DOMAIN onlineRules : onlineRules[i].enabled}]]
    /\ UNCHANGED <<onlineRules, allowMatcher, denyMatcher, mu, reloadMu, reloadID,
                   closed, hour, ruleFile, cfg, cfgTmp, usedIds, hist, lastGet>>

(* wg.Add(1); go func(ruleID)                                              *)
api_Update_Spawn(t, id) ==
    /\ task[t].kind = "update" /\ task[t].pc = "up_spawn"
    /\ id \in task[t].ids
    /\ HasFree
    /\ task' = [task EXCEPT ![t].ids = @ \ {id}, ![FreeSlot] = BatchChild(t, id)]
    /\ UNCHANGED <<onlineRules, allowMatcher, denyMatcher, mu, reloadMu, reloadID,
                   closed, hour, ruleFile, cfg, cfgTmp, usedIds, budget, hist, lastGet>>

(* wg.Wait() returns; on to p.triggerReload(p.ctx)                         *)
api_Update_Wait(t) ==
    /\ task[t].kind = "update" /\ task[t].pc = "up_spawn"
    /\ BatchDone(t)
    /\ task' = [task EXCEPT ![t].pc = "trig"]
    /\ UNCHANGED <<onlineRules, allowMatcher, denyMatcher, mu, reloadMu, reloadID,
                   closed, hour, ruleFile, cfg, cfgTmp, usedIds, budget, hist, lastGet>>

-----------------------------------------------------------------------------
(* backgroundUpdater (slot Updater) and getRulesForAutoUpdate.             *)

(* an eligibility test that takes interval 0 as "every tick"               *)
DueAnyInterval(r) ==
    /\ r.enabled /\ r.auto_update
    /\ (r.last_updated = 0 \/ hour - r.last_updated >= r.update_interval_hours)

Due(r) ==
    /\ r.enabled /\ r.auto_update /\ r.update_interval_hours > 0
    /\ (r.last_updated = 0 \/ hour - r.last_updated >= r.update_interval_hours)

getRulesForAutoUpdate == {i \in DOMAIN onlineRules : Due(onlineRules[i])}

(* case <-time.After(1 * time.Minute)                                      *)
backgroundUpdater_Delay ==
    /\ task[Updater].pc = "u_delay"
    /\ task' = [task EXCEPT ![Updater].pc = "u_select"]
    /\ UNCHANGED <<onlineRules, allowMatcher, denyMatcher, mu, reloadMu, reloadID,
                   closed, hour, ruleFile, cfg, cfgTmp, usedIds, budget, hist, lastGet>>

(* an updater whose initial delay does not listen to p.ctx.Done()          *)
SelectingInLoop(pc) == pc = "u_select"

(* the updater is blocked in one of its two select statements              *)
Selecting(pc) == pc \in {"u_delay", "u_select"}

(* case <-p.ctx.Done(): return, in either select                           *)
backgroundUpdater_Exit ==
    /\ Selecting(task[Updater].pc)
    /\ closed
    /\ task' = [task EXCEPT ![Updater].pc = "u_exit"]
    /\ UNCHANGED <<onlineRules, allowMatcher, denyMatcher, mu, reloadMu, reloadID,
                   closed, hour, ruleFile, cfg, cfgTmp, usedIds, budget, hist, lastGet>>

(* case <-ticker.C: getRulesForAutoUpdate; continue when nothing is due    *)
backgroundUpdater_Tick ==
    /\ task[Updater].pc = "u_select"
    /\ budget.tick > 0
    /\ CanRLock
    /\ budget' = Spend("tick")
    /\ task' = [task EXCEPT ![Updater].ids = getRulesForAutoUpdate,
                            ![Updater].pc = IF getRulesForAutoUpdate = {}
                                            THEN "u_select" ELSE "u_spawn"]
    /\ UNCHANGED <<onlineRules, allowMatcher, denyMatcher, mu, reloadMu, reloadID,
                   closed, hour, ruleFile, cfg, cfgTmp, usedIds, hist, lastGet>>

(* wg.Add(1); go func(ruleID)                                              *)
backgroundUpdater_Spawn(id) ==
    /\ task[Updater].pc = "u_spawn"
    /\ id \in task[Updater].ids
    /\ HasFree
    /\ task' = [task EXCEPT ![Updater].ids = @ \ {id},
                            ![FreeSlot] = BatchChild(Updater, id)]
    /\ UNCHANGED <<onlineRules, allowMatcher, denyMatcher, mu, reloadMu, reloadID,
                   closed, hour, ruleFile, cfg, cfgTmp, usedIds, budget, hist, lastGet>>

(* wg.Wait() returns; on to p.triggerReload(p.ctx)                         *)
backgroundUpdater_Wait ==
    /\ task[Updater].pc = "u_spawn"
    /\ BatchDone(Updater)
    /\ task' = [task EXCEPT ![Updater].pc = "trig"]
    /\ UNCHANGED <<onlineRules, allowMatcher, denyMatcher, mu, reloadMu, reloadID,
                   closed, hour, ruleFile, cfg, cfgTmp, usedIds, budget, hist, lastGet>>

-----------------------------------------------------------------------------
(* Close and the passage of time.                                          *)

(* p.cancel()                                                              *)
Close ==
    /\ ~closed
    /\ budget.close > 0
    /\ closed' = TRUE
    /\ budget' = Spend("close")
    /\ UNCHANGED <<onlineRules, allowMatcher, denyMatcher, mu, reloadMu, reloadID,
                   hour, task, ruleFile, cfg, cfgTmp, usedIds, hist, lastGet>>

(* one instant of the debounce clock passes: every pending timer comes    *)
(* one instant closer to firing                                            *)
Tick ==
    /\ \/ hist.age < reloadDebounceDur
       \/ \E t \in Tasks : task[t].kind = "timer" /\ task[t].pc = "armed"
                           /\ task[t].due > 0
    /\ task' = [u \in AllTasks |->
                  IF task[u].kind = "timer" /\ task[u].pc = "armed" /\ task[u].due > 0
                  THEN [task[u] EXCEPT !.due = @ - 1] ELSE task[u]]
    /\ hist' = [hist EXCEPT !.age = IF @ < reloadDebounceDur THEN @ + 1 ELSE @]
    /\ UNCHANGED <<onlineRules, allowMatcher, denyMatcher, mu, reloadMu, reloadID,
                   closed, hour, ruleFile, cfg, cfgTmp, usedIds, budget, lastGet>>

(* one hour of the wall clock passes                                       *)
HourTick ==
    /\ hour < MaxHour
    /\ hour' = hour + 1
    /\ UNCHANGED <<onlineRules, allowMatcher, denyMatcher, mu, reloadMu, reloadID,
                   closed, task, ruleFile, cfg, cfgTmp, usedIds, budget,
                   hist, lastGet>>


-----------------------------------------------------------------------------
(* Specifications.                                                         *)

NoBudget ==
    [match |-> 0, put |-> 0, delete |-> 0, post |-> 0, get |-> 0, update |-> 0,
     close |-> 0, tick |-> 0, fault |-> 0, ids |-> {}, bodies |-> {}]

(* The steps of saveConfig, triggerReload and reloadAllRules, shared by    *)
(* the specifications below.                                               *)
SaveSteps ==
    \E t \in AllTasks :
        \/ saveConfig_Marshal(t)
        \/ saveConfig_Open(t)
        \/ saveConfig_Write(t)
        \/ saveConfig_Rename(t)

TriggerSteps ==
    \E t \in AllTasks :
        \/ triggerReload_Add(t)
        \/ triggerReload_AfterFunc(t)
        \/ triggerReload_Fire(t)
        \/ triggerReload_CheckID(t)

ReloadSteps ==
    \E t \in Tasks :
        \/ reloadAllRules_Lock(t)
        \/ reloadAllRules_Snapshot(t)
        \/ updateAllRuleCounts_Lock(t)
        \/ updateAllRuleCounts_Refresh(t)
        \/ (\E id \in AllIds : reloadAllRules_Parse(t, id))
        \/ reloadAllRules_SwapLock(t)
        \/ reloadAllRules_SetAllow(t)
        \/ reloadAllRules_SetDeny(t)

MatchSteps ==
    \E t \in Tasks :
        \/ (\E d \in Domains : Match_RLock(t, d))
        \/ Match_Allow(t)
        \/ Match_Deny(t)
        \/ Match_Return(t)

PutSteps ==
    \/ \E t \in Tasks, id \in AllIds, b \in Bodies : api_PutRules_Mutate(t, id, b)
    \/ \E t \in Tasks : api_PutRules_Saved(t)

DeleteSteps ==
    \/ \E t \in Tasks, id \in AllIds : api_DeleteRules_Mutate(t, id)
    \/ \E t \in Tasks : api_DeleteRules_Remove(t)
    \/ \E t \in Tasks : api_DeleteRules_Saved(t)

PostSteps ==
    \/ \E t \in Tasks, id \in AllIds, b \in Bodies : api_PostRules_Insert(t, id, b)
    \/ \E t \in Tasks : api_PostRules_Saved(t)
    \/ \E t \in Tasks : api_PostRules_Go(t)
    \/ \E t \in Tasks : api_PostRules_Downloaded(t)

UpdaterSteps ==
    \/ backgroundUpdater_Delay
    \/ backgroundUpdater_Exit
    \/ backgroundUpdater_Tick
    \/ (\E id \in AllIds : backgroundUpdater_Spawn(id))
    \/ backgroundUpdater_Wait

DownloadSteps ==
    \E t \in Tasks :
        \/ downloadRule_Resolve(t)
        \/ downloadRule_Send(t)
        \/ downloadRule_Fail(t)
        \/ downloadRule_Body(t)
        \/ downloadRule_Rename(t)
        \/ downloadRule_Stamp(t)
        \/ download_Done(t)

UpdateSteps ==
    \E t \in Tasks :
        \/ api_Update_Start(t)
        \/ (\E id \in AllIds : api_Update_Spawn(t, id))
        \/ api_Update_Wait(t)

(* Match calls against PUT requests and the reloads they trigger.          *)
InitSnap ==
    /\ InitBase
    /\ budget = [NoBudget EXCEPT !.match = SnapMatches, !.put = SnapPuts,
                                 !.ids = {1}, !.bodies = {BodyOn, BodyOff}]

NextSnap ==
    \/ MatchSteps
    \/ PutSteps
    \/ SaveSteps
    \/ TriggerSteps
    \/ ReloadSteps
    \/ Tick

SpecSnap == InitSnap /\ [][NextSnap]_vars

(* Bursts of triggerReload calls against the debounce timers.              *)
InitDebounce ==
    /\ InitBase
    /\ onlineRules[1].enabled /\ ~onlineRules[2].enabled
    /\ budget = [NoBudget EXCEPT !.put = DebouncePuts,
                                 !.ids = {1}, !.bodies = {BodyOn, BodyOff}]

NextDebounce ==
    \/ PutSteps
    \/ SaveSteps
    \/ TriggerSteps
    \/ ReloadSteps
    \/ Tick

SpecDebounce == InitDebounce /\ [][NextDebounce]_vars

(* Triggers of PUT and POST /update under fair scheduling: every           *)
(* goroutine that can take a step eventually takes one, and time passes.   *)
InitLive ==
    /\ InitBase
    /\ onlineRules[1].enabled /\ ~onlineRules[2].enabled
    /\ budget = [NoBudget EXCEPT !.put = LivePuts, !.update = LiveUpdates,
                                 !.ids = {1}, !.bodies = {BodyOff}]

NextLive ==
    \/ PutSteps
    \/ UpdateSteps
    \/ DownloadSteps
    \/ SaveSteps
    \/ TriggerSteps
    \/ ReloadSteps
    \/ Tick

(* the steps of goroutines that are already running                        *)
Running ==
    \/ \E t \in Tasks : api_PutRules_Saved(t)
    \/ \E t \in Tasks : api_PostRules_Saved(t) \/ api_PostRules_Go(t)
    \/ \E t \in Tasks : api_PostRules_Downloaded(t)
    \/ \E id \in AllIds : backgroundUpdater_Spawn(id)
    \/ backgroundUpdater_Wait
    \/ \E t \in Tasks, id \in AllIds : api_Update_Spawn(t, id)
    \/ \E t \in Tasks : api_Update_Wait(t) \/ updateAllRuleCounts_Saved(t)
    \/ DownloadSteps
    \/ SaveSteps
    \/ TriggerSteps
    \/ ReloadSteps
    \/ Tick

(* where every goroutine stands, and the clocks: each step of a goroutine *)
(* changes it                                                              *)
position ==
    <<[t \in AllTasks |-> <<task[t].kind, task[t].pc, task[t].due, task[t].ids>>],
      hist.age, reloadID>>

SpecLive == InitLive /\ [][NextLive]_vars /\ WF_position(Running)


(* Close against the debounce callbacks of PUT requests.                   *)
InitClose ==
    /\ InitBase
    /\ onlineRules[1].enabled /\ ~onlineRules[2].enabled
    /\ budget = [NoBudget EXCEPT !.put = ClosePuts, !.close = 1,
                                 !.ids = {1}, !.bodies = {BodyOn, BodyOff}]

NextClose ==
    \/ PutSteps
    \/ SaveSteps
    \/ TriggerSteps
    \/ ReloadSteps
    \/ Tick
    \/ Close

SpecClose == InitClose /\ [][NextClose]_vars

(* Close against the downloads of the POST goroutine, of POST /update or   *)
(* of the auto-updater.                                                    *)
InitDownload ==
    /\ InitBase
    /\ onlineRules[1].enabled /\ ~onlineRules[2].enabled
    /\ \E k \in {"post", "update", "tick"} :
         budget = [NoBudget EXCEPT ![k] = DownloadRequests, !.close = 1,
                                   !.bodies = {BodyOn}]

NextDownload ==
    \/ PostSteps
    \/ UpdateSteps
    \/ UpdaterSteps
    \/ DownloadSteps
    \/ SaveSteps
    \/ TriggerSteps
    \/ ReloadSteps
    \/ (\E t \in Tasks : updateAllRuleCounts_Saved(t))
    \/ Tick
    \/ HourTick
    \/ Close

SpecDownload == InitDownload /\ [][NextDownload]_vars

(* SpecDownload under fair scheduling; a select of the updater that finds  *)
(* p.ctx.Done() ready time and again eventually takes that case.           *)
SpecUpdater ==
    /\ InitDownload
    /\ [][NextDownload]_vars
    /\ WF_position(Running)
    /\ SF_position(backgroundUpdater_Exit)

(* The control API.  Each behaviour runs one scenario: a PUT against a     *)
(* POST /update, a POST /rules, DELETEs and a PUT of the same list, or     *)
(* requests with bodies that do not validate; each with GET /rules.        *)
ApiScenarios ==
    {[NoBudget EXCEPT !.put = ApiRequests, !.update = ApiRequests,
                      !.get = ApiRequests, !.ids = {1}, !.bodies = {BodyOff}],
     [NoBudget EXCEPT !.post = ApiRequests, !.get = ApiRequests,
                      !.bodies = {BodyOn}],
     [NoBudget EXCEPT !.delete = ApiDeletes, !.put = ApiRequests,
                      !.get = ApiRequests, !.ids = {1}, !.bodies = {BodyOn}],
     [NoBudget EXCEPT !.put = ApiRequests, !.post = ApiRequests,
                      !.ids = {1}, !.bodies = {BodyBlank, BodyNegative}]}

InitApi ==
    /\ InitBase
    /\ onlineRules[1].enabled /\ ~onlineRules[2].enabled
    /\ budget \in ApiScenarios

NextApi ==
    \/ api_GetRules
    \/ PutSteps
    \/ (\E id \in AllIds, b \in Bodies : api_PutRules_Invalid(id, b))
    \/ (\E id \in AllIds, b \in Bodies : api_PutRules_NotFound(id, b))
    \/ DeleteSteps
    \/ (\E id \in AllIds : api_DeleteRules_NotFound(id))
    \/ PostSteps
    \/ (\E b \in Bodies : api_PostRules_Invalid(b))
    \/ UpdateSteps
    \/ DownloadSteps
    \/ SaveSteps
    \/ TriggerSteps
    \/ ReloadSteps
    \/ (\E t \in Tasks : updateAllRuleCounts_Saved(t))
    \/ Tick
    \/ HourTick

SpecApi == InitApi /\ [][NextApi]_vars

(* Requests against a POST /update.  Each behaviour runs one scenario: PUT *)
(* and POST with bodies that do not validate, PUT and DELETE of an id that *)
(* is not in the map, a PUT that is accepted (one of its bodies carries    *)
(* fields a PUT does not take), or a PUT whose save fails in               *)
(* os.WriteFile.                                                           *)
RejectScenarios ==
    {[NoBudget EXCEPT !.put = RejectRequests, !.post = RejectRequests,
                      !.update = RejectRequests,
                      !.ids = {1}, !.bodies = {BodyBlank, BodyNegative}],
     [NoBudget EXCEPT !.put = RejectRequests, !.delete = RejectRequests,
                      !.update = RejectRequests,
                      !.ids = UuidPool, !.bodies = {BodyOn}],
     [NoBudget EXCEPT !.put = RejectRequests, !.update = RejectRequests,
                      !.ids = {1}, !.bodies = {BodyOff, BodyForeign}],
     [NoBudget EXCEPT !.put = RejectRequests, !.fault = RejectRequests,
                      !.ids = {1}, !.bodies = {BodyOff}]}

InitReject ==
    /\ InitBase
    /\ onlineRules[1].enabled /\ ~onlineRules[2].enabled
    /\ budget \in RejectScenarios

NextReject ==
    \/ PutSteps
    \/ (\E id \in AllIds, b \in Bodies : api_PutRules_Invalid(id, b))
    \/ (\E id \in AllIds, b \in Bodies : api_PutRules_NotFound(id, b))
    \/ (\E id \in AllIds : api_DeleteRules_NotFound(id))
    \/ (\E b \in Bodies : api_PostRules_Invalid(b))
    \/ (\E t \in AllTasks : saveConfig_WriteFail(t))
    \/ UpdateSteps
    \/ DownloadSteps
    \/ SaveSteps
    \/ TriggerSteps
    \/ ReloadSteps
    \/ Tick

SpecReject == InitReject /\ [][NextReject]_vars

-----------------------------------------------------------------------------
(* Properties of SpecSnap.                                                 *)

MatchAt(t, pc) == task[t].kind = "match" /\ task[t].pc = pc

(* C1: a Match call never pairs the allow matcher of one generation with   *)
(* the deny matcher of another: the deny matcher it is about to evaluate,  *)
(* and the one it has evaluated, were published by the swap that published *)
(* the allow matcher it evaluated (or both are the initial pair).          *)
SnapshotAtomicity ==
    \A t \in Tasks :
        /\ MatchAt(t, "m_deny") => task[t].x.aGen = denyMatcher.gen
        /\ (MatchAt(t, "m_ret") /\ task[t].x.dGen # -1) =>
               task[t].x.aGen = task[t].x.dGen

(* C1 witness: a Match call that has evaluated the allow matcher of the    *)
(* initial pair is about to evaluate the deny matcher while a reload has   *)
(* its new pair ready and waits for p.mu to swap it in.                    *)
SnapshotAtomicityWitness ==
    \E t, u \in Tasks :
        /\ MatchAt(t, "m_deny") /\ task[t].x.aGen = 0
        /\ task[u].pc = "rl_parse" /\ task[u].ids = {}
        /\ task[u].x.deny # denyMatcher.rules

(* C2: Match reports blocked exactly when the deny matcher of the          *)
(* published snapshot matches the domain and its allow matcher does not.   *)
AllowPrecedence ==
    \A t \in Tasks :
        MatchAt(t, "m_ret") =>
            (task[t].x.blocked <=>
                (/\ MatcherMatch(denyMatcher.rules, task[t].x.d)
                 /\ ~MatcherMatch(allowMatcher.rules, task[t].x.d)))

(* C2 witness: a Match of a domain matched by both matchers returns not    *)
(* blocked, from a snapshot a reload has published.                        *)
AllowPrecedenceWitness ==
    \E t \in Tasks :
        /\ MatchAt(t, "m_ret")
        /\ allowMatcher.gen = 1
        /\ MatcherMatch(denyMatcher.rules, task[t].x.d)
        /\ MatcherMatch(allowMatcher.rules, task[t].x.d)
        /\ ~task[t].x.blocked


-----------------------------------------------------------------------------
(* Properties of SpecDebounce.                                             *)

Reloading(t) ==
    task[t].kind = "timer" /\ task[t].pc \notin {"armed", "cb_id"}

(* C3: a triggerReload call that a newer call follows within the debounce  *)
(* duration never leads to a reload, so of the calls of one window only    *)
(* the last one reloads; that reload starts no earlier than the debounce   *)
(* duration after the last call; a callback whose captured reload_id is no *)
(* longer current returns without rebuilding.                              *)
DebounceCoalescing ==
    /\ ~hist.supRan
    /\ ~hist.early
    /\ ~hist.staleRan
    /\ \A t \in Tasks : Reloading(t) => ~task[t].sup

(* C3 witness: the third call of a burst reloads while the callbacks of    *)
(* the two calls it superseded within the window are still to run.         *)
DebounceCoalescingWitness ==
    \E t, u, v \in Tasks :
        /\ Reloading(t) /\ task[t].n = 3
        /\ task[u].kind = "timer" /\ task[u].n = 1 /\ task[u].sup
        /\ task[v].kind = "timer" /\ task[v].n = 2 /\ task[v].sup

-----------------------------------------------------------------------------
(* Properties of SpecLive.                                                 *)

Calls == 1..(LivePuts + LiveUpdates)

(* C4: once the n-th triggerReload call has been made, a reload that took  *)
(* its snapshot of the manifest after that call eventually publishes its   *)
(* matcher pair, whoever made the call and whatever reload was running     *)
(* when the timer fired; the reload is that of the call itself or of a     *)
(* later one.                                                              *)
DebouncedReloadHappens ==
    \A n \in Calls :
        (reloadID = n) ~> (allowMatcher.asof >= n /\ denyMatcher.asof >= n)

(* C4 witness: the reload of the first call has published its pair and    *)
(* the reload of the second call, whose timer fired while the first was   *)
(* running, publishes its own.                                             *)
DebouncedReloadHappensWitness ==
    \E t \in Tasks :
        /\ task[t].kind = "timer" /\ task[t].pc = "rl_deny" /\ task[t].n = 2
        /\ allowMatcher.gen = 2 /\ denyMatcher.asof = 1
        /\ budget.put = 0 /\ budget.update = 0

-----------------------------------------------------------------------------
(* Properties of SpecClose.                                                *)

(* C5: no reloadAllRules call is made by a debounce callback once Close    *)
(* has cancelled p.ctx, and so no matcher pair is published by a reload    *)
(* that began after the cancellation.  The callback reads p.ctx.Err()      *)
(* before it compares the reload IDs, and Close can run between the two.   *)
NoReloadAfterClose == ~hist.reloadAfterClose

-----------------------------------------------------------------------------
(* Properties of SpecDownload.                                             *)

(* C6: no HTTP request of downloadRule is sent once Close has cancelled    *)
(* p.ctx, whether the download comes from the auto-updater, from the       *)
(* goroutine of POST /rules or from that of POST /update; hence no         *)
(* download begun after Close replaces a rule file or sets last_updated.   *)
NoDownloadAfterClose ==
    /\ \A t \in Tasks : ~task[t].late
    /\ ~hist.lateEffect

(* C6 witness: Close has run and a download goroutine that was started     *)
(* afterwards has returned from downloadRule with an error, no request     *)
(* sent.                                                                   *)
NoDownloadAfterCloseWitness ==
    \E t \in Tasks :
        /\ closed
        /\ task[t].kind \in {"dl", "postgo"}
        /\ task[t].pc = "dl_done" /\ task[t].err
        /\ task[t].x = NoLocals /\ ~task[t].late
        /\ ruleFile[task[t].id] = (IF task[t].id \in InitIds
                                   THEN FileOf(Remote(InitRules(TRUE, FALSE)[task[t].id].url))
                                   ELSE NoFile)

-----------------------------------------------------------------------------
(* Properties of SpecUpdater.                                              *)

(* C7: after Close the auto-updater goroutine eventually returns, whether  *)
(* Close finds it in the initial delay, waiting for the next tick or       *)
(* waiting for its batch of downloads.                                     *)
UpdaterTerminates == closed ~> (task[Updater].pc = "u_exit")

(* C7 witness: Close has run while the updater waits in wg.Wait() for a    *)
(* download whose request is in flight.                                    *)
UpdaterTerminatesWitness ==
    /\ closed
    /\ task[Updater].pc = "u_spawn" /\ task[Updater].ids = {}
    /\ \E t \in Tasks : task[t].par = Updater /\ task[t].pc = "dl_wait"

-----------------------------------------------------------------------------
(* Properties of SpecApi.                                                  *)

(* the object of list id in a GET response, if any                         *)
Entry(resp, id) == {resp[i] : i \in {j \in DOMAIN resp : resp[j].id = id}}

ShowsBody(e, b) ==
    /\ e.name = b.name /\ e.url = b.url /\ e.enabled = b.enabled
    /\ e.auto_update = b.auto_update
    /\ e.update_interval_hours = b.update_interval_hours

(* C8: a GET /rules made after a POST, PUT or DELETE has answered success, *)
(* and before any later change of the same list, returns the created list, *)
(* the updated field values, or omits the deleted list.                    *)
ReadYourWrites ==
    \A id \in AllIds :
        /\ lastGet.ack[id] \in {"put", "post"} =>
               /\ Entry(lastGet.resp, id) # {}
               /\ \A e \in Entry(lastGet.resp, id) : ShowsBody(e, lastGet.val[id])
        /\ lastGet.ack[id] = "delete" => Entry(lastGet.resp, id) = {}

(* C8 witness: the GET was made after a PUT had answered 200, while a      *)
(* download of the same list had replaced the file and not yet stamped it. *)
ReadYourWritesWitness ==
    /\ lastGet.ack[1] = "put"
    /\ \E e \in Entry(lastGet.resp, 1) : ShowsBody(e, Trimmed(BodyOff))
    /\ \E t \in Tasks : task[t].kind = "dl" /\ task[t].id = 1
                        /\ task[t].pc = "dl_stamp"

SavePcs == {"save", "save_open", "save_write", "save_rename", "save_done"}

(* no handler, download or save is in progress                             *)
Quiescent ==
    \A t \in Tasks :
        /\ task[t].kind \in {"idle", "timer"}
        /\ task[t].pc \notin SavePcs

(* C9: when a POST, PUT or DELETE has answered success and no handler,     *)
(* download or save is in progress, config.json holds exactly the lists in *)
(* memory, with their persisted fields.                                    *)
ManifestReflectsMemory ==
    (hist.anyOk /\ Quiescent) =>
        /\ cfg.exists /\ cfg.complete
        /\ loadConfig(cfg.data) = onlineRules

(* C9 witness: everything is at rest after a POST whose list was           *)
(* downloaded, stamped and counted by the reload.                          *)
ManifestReflectsMemoryWitness ==
    /\ hist.anyOk /\ Quiescent
    /\ \A t \in Tasks : task[t].kind = "idle"
    /\ 3 \in DOMAIN onlineRules
    /\ onlineRules[3].rule_count > 0 /\ onlineRules[3].last_updated > 0

(* C10: config.json is at every instant absent or the complete             *)
(* serialization of a manifest state; it is never empty or partly written. *)
ManifestAlwaysComplete == cfg.exists => cfg.complete

-----------------------------------------------------------------------------
(* Properties of SpecReject.                                               *)

(* C11: the step that handles a POST or PUT whose body does not validate   *)
(* (400) or a PUT or DELETE of an unknown id (404) leaves the map,         *)
(* config.json and its temporary file, the rule files, reloadID and both   *)
(* matchers as they were, and starts no goroutine and no timer.            *)
RejectedChangesNothing ==
    [][(/\ \/ budget.bodies \subseteq {BodyBlank, BodyNegative}
           \/ budget.ids \cap (InitIds \cup usedIds) = {}
        /\ \/ budget'.put # budget.put
           \/ budget'.post # budget.post
           \/ budget'.delete # budget.delete)
       => UNCHANGED <<onlineRules, cfg, cfgTmp, ruleFile, reloadID, allowMatcher,
                      denyMatcher, task, usedIds, mu>>]_vars

(* C11 witness: the PUT and the second rejected request have been answered *)
(* while a download of POST /update has its request in flight.             *)
RejectedChangesNothingWitness ==
    /\ budget.put = 0 /\ budget.post = 0 /\ budget.delete = 0
    /\ \E t \in Tasks : task[t].kind = "dl" /\ task[t].pc = "dl_wait"
    /\ onlineRules = InitRules(TRUE, FALSE)


(* C12: a download that returns an error has neither replaced the rule     *)
(* file of its list with other content nor advanced its last_updated.      *)
FailedDownloadLeavesList ==
    \A t \in Tasks :
        (task[t].kind \in {"dl", "postgo"} /\ Downloaded(task[t]) /\ task[t].err)
            => ~task[t].adv

(* C13: no task opens or parses a rule file while it holds p.mu in write   *)
(* mode; at "urc" updateAllRuleCounts is in its loop of os.Open and        *)
(* parseRules over the rule files.                                         *)
NoFileIOUnderWriteLock ==
    \A t \in AllTasks : task[t].pc = "urc" => mu.w # t

(* C14: the matcher pair a reload publishes holds exactly the rules parsed *)
(* from the files, as the reload opened them, of the lists that were       *)
(* enabled when the reload took its manifest snapshot; a list that was     *)
(* disabled then, or whose file could not be opened, contributes nothing.  *)
PublishedContent ==
    [][\A t \in Tasks :
         (task[t].pc = "rl_deny" /\ task'[t].pc = "idle")
           => LET x  == task[t].x
                  en == {i \in DOMAIN x.man : x.man[i]}
              IN  /\ allowMatcher'.rules = BuildAllow(en, x.files)
                  /\ denyMatcher'.rules = BuildDeny(en, x.files)]_vars

(* a reload about to publish after it saw list 1 enabled with its file,    *)
(* list 2 disabled and list 3 enabled without a file it could open         *)
PublishedContentWitness ==
    \E t \in Tasks :
        /\ task[t].pc = "rl_deny"
        /\ DOMAIN task[t].x.man = {1, 2, 3}
        /\ task[t].x.man[1] /\ ~task[t].x.man[2] /\ task[t].x.man[3]
        /\ task[t].x.files[1].exists /\ ~task[t].x.files[3].exists
        /\ ruleFile[2].exists
        /\ task[t].x.deny # {}

-----------------------------------------------------------------------------
(* Match against the matchers the initial reload of newAdguardRule builds  *)
(* from a rule file of list 1 holding any lines of RulePool.               *)

(* ||*.tracker.net^, ||ads.*.net^, ||a.com^, @@||x.tracker.net^ and the    *)
(* bare line tracker.net                                                   *)
RulePool ==
    {Line("block", <<"*", "tracker", "net">>), Line("block", <<"ads", "*", "net">>),
     Line("block", aCom), Line("allow", <<"x", "tracker", "net">>),
     Line("bare", <<"tracker", "net">>)}

QueryDomains ==
    {<<"tracker", "net">>, <<"x", "tracker", "net">>, <<"y", "z", "tracker", "net">>,
     <<"ads", "x", "net">>, aCom}

(* The state newAdguardRule leaves when config.json holds rules and the    *)
(* rule files are files: the map, the matchers of its initial reload, the  *)
(* updater started.                                                        *)
InitWith(rules, files) ==
    /\ onlineRules = rules
    /\ ruleFile = files
    /\ allowMatcher =
         Matcher(0, 0, BuildAllow({i \in DOMAIN rules : rules[i].enabled}, files))
    /\ denyMatcher =
         Matcher(0, 0, BuildDeny({i \in DOMAIN rules : rules[i].enabled}, files))
    /\ cfg = [exists |-> TRUE, data |-> Serialize(rules),
              complete |-> TRUE, writers |-> {}]
    /\ cfgTmp = NoCfg
    /\ mu = [w |-> -1, r |-> {}]
    /\ reloadMu = -1
    /\ reloadID = 0
    /\ closed = FALSE
    /\ hour = 1
    /\ task = [t \in AllTasks |->
                 IF t = Updater THEN Frame("updater", "u_delay", 0, "root", -1)
                 ELSE Idle]
    /\ usedIds = {}
    /\ hist = InitHist
    /\ lastGet = [resp |-> <<>>, ack |-> InitHist.ack, val |-> InitHist.val]

InitParse ==
    /\ \E lines \in SUBSET RulePool :
         InitWith([InitRules(TRUE, FALSE) EXCEPT
                     ![1].rule_count = parseRules(lines).count],
                  [i \in AllIds |->
                     IF i = 1 THEN FileOf(lines)
                     ELSE IF i = 2 THEN FileOf(Remote("u2")) ELSE NoFile])
    /\ budget = [NoBudget EXCEPT !.match = ParseMatches]

NextParse ==
    \/ \E t \in Tasks, d \in QueryDomains : Match_RLock(t, d)
    \/ \E t \in Tasks : Match_Allow(t)
    \/ \E t \in Tasks : Match_Deny(t)
    \/ \E t \in Tasks : Match_Return(t)

SpecParse == InitParse /\ [][NextParse]_vars

(* C15: when the only line of the rule file is ||*.tracker.net^, the deny  *)
(* matcher holds a regexp rule and Match blocks x.tracker.net and          *)
(* y.z.tracker.net and does not block tracker.net.                         *)
WildcardConversion ==
    \A t \in Tasks :
        (/\ ruleFile[1].lines = {Line("block", <<"*", "tracker", "net">>)}
         /\ MatchAt(t, "m_ret")
         /\ task[t].x.d \in {<<"tracker", "net">>, <<"x", "tracker", "net">>,
                             <<"y", "z", "tracker", "net">>})
          => /\ \A r \in denyMatcher.rules : r.kind = "regexp"
             /\ task[t].x.blocked <=> task[t].x.d # <<"tracker", "net">>

(* C16: once every saveConfig that has opened config.json.tmp has returned, *)
(* config.json.tmp does not exist.                                         *)
NoTemporaryFileSurvives ==
    (\A t \in AllTasks : task[t].pc \notin {"save_write", "save_rename"})
        => ~cfgTmp.exists

-----------------------------------------------------------------------------
(* The ticks of the auto-updater over manifests of any flags, interval and *)
(* last_updated of list 1; list 2 is enabled with auto_update and          *)
(* interval 0.                                                             *)

InitTick ==
    /\ \E e \in BOOLEAN, a \in BOOLEAN, n \in {-1, 0, 1, 2}, l \in {0, 1} :
         InitWith((1 :> OnlineRule("a", "u1", e, a, n,
                                   parseRules(Remote("u1")).count, l))
                  @@ (2 :> OnlineRule("b", "u2", TRUE, TRUE, 0,
                                      parseRules(Remote("u2")).count, 1)),
                  [i \in AllIds |->
                     IF i = 1 THEN FileOf(Remote("u1"))
                     ELSE IF i = 2 THEN FileOf(Remote("u2")) ELSE NoFile])
    /\ budget = [NoBudget EXCEPT !.tick = TickCount]

NextTick ==
    \/ backgroundUpdater_Delay
    \/ backgroundUpdater_Tick
    \/ (\E id \in AllIds : backgroundUpdater_Spawn(id))
    \/ backgroundUpdater_Wait
    \/ DownloadSteps
    \/ SaveSteps
    \/ TriggerSteps
    \/ ReloadSteps
    \/ Tick
    \/ HourTick

SpecTick == InitTick /\ [][NextTick]_vars

ReloadsSerialized ==
    \A t, u \in Tasks :
        (/\ task[t].pc \in {"rl_snap", "urc_lock", "urc", "rl_parse", "rl_allow", "rl_deny"}
         /\ task[u].pc \in {"rl_snap", "urc_lock", "urc", "rl_parse", "rl_allow", "rl_deny"})
          => (t = u /\ reloadMu = t)

(* a second debounce callback has passed its ID check and waits for        *)
(* p.reloadMu while the first reload is parsing                            *)
ReloadsSerializedWitness ==
    \E t, u \in Tasks :
        /\ task[t].pc = "rl_parse" /\ reloadMu = t
        /\ task[u].pc = "rl_mu"

-----------------------------------------------------------------------------
(* A POST /rules against a PUT /rules/{id} of the id the POST creates.     *)

InitRace ==
    /\ InitBase
    /\ onlineRules[1].enabled /\ ~onlineRules[2].enabled
    /\ budget = [NoBudget EXCEPT !.post = RaceRequests, !.put = RaceRequests,
                                 !.ids = UuidPool, !.bodies = {BodyOn, BodyOff}]

NextRace ==
    \/ PostSteps
    \/ PutSteps
    \/ (\E id \in AllIds, b \in Bodies : api_PutRules_NotFound(id, b))
    \/ (\E t \in Tasks : downloadRule_Resolve(t))
    \/ (\E t \in Tasks : downloadRule_Send(t))
    \/ (\E t \in Tasks : downloadRule_Fail(t))
    \/ (\E t \in Tasks : downloadRule_Body(t))
    \/ (\E t \in Tasks : downloadRule_Rename(t))
    \/ (\E t \in Tasks : downloadRule_Stamp(t))
    \/ SaveSteps
    \/ TriggerSteps
    \/ ReloadSteps
    \/ (\E t \in Tasks : updateAllRuleCounts_Saved(t))
    \/ Tick

SpecRace == InitRace /\ [][NextRace]_vars

(* C19: no task reads a field of a list in the map without holding p.mu    *)
(* while another task can write that field: when the goroutine of POST is  *)
(* at its read of newRule.Enabled, holding no lock, no PUT of the same id  *)
(* can take p.mu.Lock() and write Enabled.                                 *)
NoUnlockedReadWhileWritten ==
    \A t \in Tasks :
        (/\ task[t].kind = "postgo" /\ task[t].pc = "pg_check"
         /\ task[t].id \in DOMAIN onlineRules
         /\ t \notin mu.r /\ mu.w # t)
          => ~ENABLED (\E u \in Tasks, b \in Bodies :
                          api_PutRules_Mutate(u, task[t].id, b))

(* C20: the step of a PUT handler that updates the map changes only name,  *)
(* url, enabled, auto_update and update_interval_hours of the addressed    *)
(* list: the set of lists, every rule_count and last_updated, every other  *)
(* list and every rule file stay as they are; no later step of the handler *)
(* changes the map or a rule file.                                         *)
PutFrame ==
    [][/\ budget'.put # budget.put =>
            /\ DOMAIN onlineRules' = DOMAIN onlineRules
            /\ ruleFile' = ruleFile
            /\ \A i \in DOMAIN onlineRules :
                 /\ onlineRules'[i].rule_count = onlineRules[i].rule_count
                 /\ onlineRules'[i].last_updated = onlineRules[i].last_updated
                 /\ DOMAIN onlineRules'[i] = DOMAIN onlineRules[i]
                 /\ onlineRules'[i] # onlineRules[i] =>
                      \E t \in Tasks : /\ task[t] = Idle
                                       /\ task'[t].kind = "put" /\ task'[t].id = i
       /\ \A t \in Tasks :
            (task[t].kind = "put" /\ task'[t] # task[t])
              => UNCHANGED <<onlineRules, ruleFile>>]_vars

(* list 1 has been renamed by a PUT whose body carries id 2, rule_count 7  *)
(* and last_updated 2; its rule_count, last_updated and file are as before *)
PutFrameWitness ==
    /\ \E t \in Tasks : task[t].kind = "put" /\ task[t].pc = "save" /\ task[t].id = 1
    /\ onlineRules[1].name = BodyForeign.name
    /\ onlineRules[1].update_interval_hours = BodyForeign.update_interval_hours
    /\ onlineRules[1].rule_count = InitRules(TRUE, FALSE)[1].rule_count
    /\ onlineRules[1].last_updated = 1
    /\ onlineRules[2] = InitRules(TRUE, FALSE)[2]
    /\ ruleFile[1] = FileOf(Remote("u1"))

-----------------------------------------------------------------------------
(* A DELETE /rules/1 against a POST /update that downloads list 1.         *)

InitDelete ==
    /\ InitBase
    /\ onlineRules[1].enabled /\ ~onlineRules[2].enabled
    /\ budget = [NoBudget EXCEPT !.delete = DeleteRequests,
                                 !.update = DeleteRequests, !.ids = {1}]

NextDelete ==
    \/ DeleteSteps
    \/ UpdateSteps
    \/ DownloadSteps
    \/ SaveSteps
    \/ TriggerSteps
    \/ ReloadSteps
    \/ Tick

SpecDelete == InitDelete /\ [][NextDelete]_vars

(* C21: when DELETE /rules/{id} has answered success and no handler,       *)
(* download, save, timer or reload is in progress any more, the rule file  *)
(* of the deleted list does not exist.                                     *)
DeletedListLeavesNoFile ==
    \A id \in AllIds :
        (/\ hist.ack[id] = "delete"
         /\ id \notin DOMAIN onlineRules
         /\ \A t \in Tasks : task[t] = Idle)
          => ~ruleFile[id].exists

(* C22: when no write or rename is made to fail (budget.fault = 0), every  *)
(* saveConfig call that has returned has returned success.                 *)
SaveFailsOnlyOnFault ==
    budget.fault = 0 =>
        \A t \in AllTasks : task[t].pc = "save_done" => ~task[t].err

(* C23: a PUT or DELETE handler that has changed the map goes on to        *)
(* triggerReload when its saveConfig has returned, whether the save        *)
(* succeeded or failed.                                                    *)
ChangeIsFollowedByTrigger ==
    [][\A t \in Tasks :
         (/\ task[t].kind \in {"put", "delete"}
          /\ task[t].pc = "save_done"
          /\ task'[t] # task[t])
           => task'[t].pc = "trig"]_vars

(* C24: when a reload takes its manifest snapshot, every reload that took  *)
(* its snapshot earlier has published its pair, and a published pair is    *)
(* never replaced by one built from a snapshot taken at an earlier value   *)
(* of reload_id.                                                           *)
SnapshotsPublishedInOrder ==
    [][/\ \A t, u \in Tasks :
            (/\ task[t].pc = "rl_snap" /\ task'[t].pc = "urc_lock"
             /\ u # t)
              => task[u].pc \notin {"urc_lock", "urc", "rl_parse", "rl_allow", "rl_deny"}
       /\ allowMatcher'.asof >= allowMatcher.asof
       /\ denyMatcher'.asof >= denyMatcher.asof
       /\ allowMatcher'.gen >= allowMatcher.gen
       /\ denyMatcher'.gen >= denyMatcher.gen]_vars

(* the reload of the second PUT, with a snapshot taken after the second    *)
(* triggerReload call, is about to replace the pair the reload of the      *)
(* first PUT published                                                     *)
SnapshotsPublishedInOrderWitness ==
    \E t \in Tasks :
        /\ task[t].pc = "rl_deny" /\ task[t].x.asof = 2
        /\ denyMatcher.gen = 1 /\ denyMatcher.asof = 1
        /\ allowMatcher.gen = 2 /\ allowMatcher.asof = 2

-----------------------------------------------------------------------------
(* newAdguardRule from its call of reloadAllRules(context.Background(),    *)
(* true) on: loadConfig has read two lists, list 1 enabled, whose rule     *)
(* files may be missing; then a PUT /rules/1 and a Match call.             *)

InitBoot ==
    /\ \E e2 \in BOOLEAN, f1 \in BOOLEAN :
         /\ onlineRules = InitRules(TRUE, e2)
         /\ ruleFile = [i \in AllIds |->
                          IF i = 1 /\ f1 THEN FileOf(Remote("u1")) ELSE NoFile]
         /\ cfg = [exists |-> TRUE, data |-> Serialize(InitRules(TRUE, e2)),
                   complete |-> TRUE, writers |-> {}]
    /\ allowMatcher = Matcher(0, 0, {})
    /\ denyMatcher = Matcher(0, 0, {})
    /\ cfgTmp = NoCfg
    /\ mu = [w |-> -1, r |-> {}]
    /\ reloadMu = -1
    /\ reloadID = 0
    /\ closed = FALSE
    /\ hour = 1
    /\ task = [t \in AllTasks |->
                 IF t = 1 THEN Frame("init", "rl_mu", 0, "bg", -1) ELSE Idle]
    /\ usedIds = {}
    /\ hist = InitHist
    /\ lastGet = [resp |-> <<>>, ack |-> InitHist.ack, val |-> InitHist.val]
    /\ budget = [NoBudget EXCEPT !.ids = {1}, !.bodies = {BodyOff}]

(* the steps of the goroutines that are running in SpecBoot: everything    *)
(* but the arrival of a request or of a Match call                         *)
RunningBoot ==
    \/ \E t \in Tasks, id \in AllIds : reloadAllRules_InitialStat(t, id)
    \/ \E t \in Tasks : reloadAllRules_InitialWait(t)
    \/ \E t \in Tasks : newAdguardRule_Return(t)
    \/ ReloadSteps
    \/ DownloadSteps
    \/ SaveSteps
    \/ (\E t \in Tasks : updateAllRuleCounts_Saved(t))
    \/ (\E t \in Tasks : api_PutRules_Saved(t))
    \/ TriggerSteps
    \/ (\E t \in Tasks : Match_Allow(t))
    \/ (\E t \in Tasks : Match_Deny(t))
    \/ (\E t \in Tasks : Match_Return(t))
    \/ Tick

NextBoot ==
    \/ RunningBoot
    \/ (\E t \in Tasks, id \in AllIds, b \in Bodies : api_PutRules_Mutate(t, id, b))
    \/ (\E t \in Tasks, d \in Domains : Match_RLock(t, d))

SpecBoot == InitBoot /\ [][NextBoot]_vars /\ WF_position(RunningBoot)

(* C25: a task about to acquire p.reloadMu or p.mu holds p.mu in neither   *)
(* mode; every task that holds p.mu or p.reloadMu eventually releases it,  *)
(* and every goroutine that has started eventually ends.                   *)
LocksAreReleased ==
    /\ [](\A t \in AllTasks :
            (\/ task[t].pc \in {"rl_mu", "rl_snap", "urc_lock", "save", "dl", "dl_stamp"}
             \/ (task[t].pc = "rl_parse" /\ task[t].ids = {}))
              => (t \notin mu.r /\ mu.w # t))
    /\ \A t \in Tasks :
         /\ (mu.w = t) ~> (mu.w # t)
         /\ (t \in mu.r) ~> (t \notin mu.r)
         /\ (reloadMu = t) ~> (reloadMu # t)
         /\ (task[t] # Idle) ~> (task[t] = Idle)

(* the initial load holds p.reloadMu and waits for its two downloads: one  *)
(* is inside saveConfig with p.mu read-locked, the other waits for         *)
(* p.mu.Lock() to stamp LastUpdated                                        *)
LocksAreReleasedWitness ==
    \E t, u, v \in Tasks :
        /\ task[t].kind = "init" /\ task[t].pc = "il_stat" /\ reloadMu = t
        /\ task[u].par = t /\ task[u].pc = "save_write" /\ u \in mu.r
        /\ task[v].par = t /\ task[v].pc = "dl_stamp"

=============================================================================
